---- MODULE Spec2Model ----
(***************************************************************************)
(* Model of src/collect.py: the syllabus scraper that fills the per-day    *)
(* period x room tables (put_cell), walks the paginated result list        *)
(* (go_to_next_page, harvest_result_pages) and canonicalises the scraped   *)
(* text (norm_text, norm_room, parse_day_periods, pair_day_and_room,       *)
(* targets_from_term).                                                     *)
(*                                                                         *)
(* A Python str is a sequence of one-character tokens.  An ASCII character *)
(* is its own token ("5", "-", "F", " ").  A non-ASCII character is named  *)
(* by a token of several letters (the module is ASCII only):               *)
(*   FW0..FW9  full-width digits        FWA..FWZ, FWa..FWz full-width Latin *)
(*   FW-  U+FF0D   MINUS U+2212   CHOON U+30FC (ー)   HBAR U+2015           *)
(*   HYPHEN U+2010   FWSP U+3000   FW: (：)  FW~ (～)  FW/ (／)             *)
(*   FW( (（)  FW) (）)  WAVE (〜)  ENDASH (–)                              *)
(*   kanji and kana, named by reading:                                     *)
(*   getsu 月 ka 火 sui 水 moku 木 kin 金 do 土 nichi 日 ji 時 gen 限       *)
(*   mu 無 mi 未 tei 定 gou 号 kan 館 kai 階 matsu 末 tan 端 shitsu 室      *)
(*   kyou 教 aki 秋 fuyu 冬 haru 春 gaku 学 ki 期                           *)
(*   RU ル  MU ム  KU ク  XO ォ  TA タ  SO そ  NO の  TA_ 他                *)
(***************************************************************************)
EXTENDS Integers, Sequences, FiniteSets, TLC

\* ------------------------------------------------------------------------
\* Characters
\* ------------------------------------------------------------------------
DigitSeq == <<"0", "1", "2", "3", "4", "5", "6", "7", "8", "9">>
FwDigitSeq == <<"FW0", "FW1", "FW2", "FW3", "FW4", "FW5", "FW6", "FW7", "FW8", "FW9">>
UpperSeq == <<"A", "B", "C", "D", "E", "F", "G", "H", "I", "J", "K", "L", "M",
              "N", "O", "P", "Q", "R", "S", "T", "U", "V", "W", "X", "Y", "Z">>
LowerSeq == <<"a", "b", "c", "d", "e", "f", "g", "h", "i", "j", "k", "l", "m",
              "n", "o", "p", "q", "r", "s", "t", "u", "v", "w", "x", "y", "z">>
FwUpperSeq == <<"FWA", "FWB", "FWC", "FWD", "FWE", "FWF", "FWG", "FWH", "FWI",
                "FWJ", "FWK", "FWL", "FWM", "FWN", "FWO", "FWP", "FWQ", "FWR",
                "FWS", "FWT", "FWU", "FWV", "FWW", "FWX", "FWY", "FWZ">>
FwLowerSeq == <<"FWa", "FWb", "FWc", "FWd", "FWe", "FWf", "FWg", "FWh", "FWi",
                "FWj", "FWk", "FWl", "FWm", "FWn", "FWo", "FWp", "FWq", "FWr",
                "FWs", "FWt", "FWu", "FWv", "FWw", "FWx", "FWy", "FWz">>
DashLike == {"FW-", "MINUS", "CHOON", "HBAR", "HYPHEN"}

Range(f) == {f[i] : i \in DOMAIN f}
Digit == Range(DigitSeq)
FwDigit == Range(FwDigitSeq)
Upper == Range(UpperSeq)
Lower == Range(LowerSeq)
FwUpper == Range(FwUpperSeq)
FwLower == Range(FwLowerSeq)
AsciiAlpha == Upper \cup Lower
Kanji == {"getsu", "ka", "sui", "moku", "kin", "do", "nichi", "ji", "gen", "mu",
          "mi", "tei", "gou", "kan", "kai", "matsu", "tan", "shitsu", "kyou",
          "aki", "fuyu", "haru", "gaku", "ki", "RU", "MU", "KU", "XO", "TA",
          "SO", "NO", "TA_", "CHOON", "ka_", "moku_", "mei", "you", "KO", "DO",
          "nen", "do_"}
Space == {" ", "\t", "\n", "\r", "FWSP"}

IndexOf(seq, c) == CHOOSE i \in DOMAIN seq : seq[i] = c

\* a translation table without the dash entries (a mutant of Zen2HanChar)
Zen2HanNoDash(c) ==
    IF c \in FwDigit THEN DigitSeq[IndexOf(FwDigitSeq, c)]
    ELSE IF c \in FwUpper THEN UpperSeq[IndexOf(FwUpperSeq, c)]
    ELSE IF c \in FwLower THEN LowerSeq[IndexOf(FwLowerSeq, c)]
    ELSE IF c = "FWSP" THEN " "
    ELSE c

\* _ZEN2HAN, one character
Zen2HanChar(c) ==
    IF c \in FwDigit THEN DigitSeq[IndexOf(FwDigitSeq, c)]
    ELSE IF c \in FwUpper THEN UpperSeq[IndexOf(FwUpperSeq, c)]
    ELSE IF c \in FwLower THEN LowerSeq[IndexOf(FwLowerSeq, c)]
    ELSE IF c \in DashLike THEN "-"
    ELSE IF c = "FWSP" THEN " "
    ELSE c

\* str.upper() / str.lower(), one character (full-width letters have case too)
UpperChar(c) ==
    IF c \in Lower THEN UpperSeq[IndexOf(LowerSeq, c)]
    ELSE IF c \in FwLower THEN FwUpperSeq[IndexOf(FwLowerSeq, c)]
    ELSE c
LowerChar(c) ==
    IF c \in Upper THEN LowerSeq[IndexOf(UpperSeq, c)]
    ELSE IF c \in FwUpper THEN FwLowerSeq[IndexOf(FwUpperSeq, c)]
    ELSE c

\* re's \d, \s and \w on str patterns (Unicode aware)
IsReDigit(c) == c \in Digit \cup FwDigit
IsReSpace(c) == c \in Space
IsReWord(c) == c \in Digit \cup FwDigit \cup AsciiAlpha \cup FwUpper \cup FwLower
                     \cup Kanji \cup {"_"}
DigitVal(c) == IF c \in Digit THEN IndexOf(DigitSeq, c) - 1
               ELSE IndexOf(FwDigitSeq, c) - 1

\* ------------------------------------------------------------------------
\* str helpers
\* ------------------------------------------------------------------------
MapStr(s, Op(_)) == [i \in 1..Len(s) |-> Op(s[i])]
StrUpper(s) == MapStr(s, UpperChar)
StrLower(s) == MapStr(s, LowerChar)

Drop(s, n) == SubSeq(s, n + 1, Len(s))
Take(s, n) == SubSeq(s, 1, n)

\* number of leading / trailing characters of s satisfying P
RECURSIVE LeadCount(_, _, _)
LeadCount(s, P(_), i) ==
    IF i <= Len(s) /\ P(s[i]) THEN LeadCount(s, P, i + 1) ELSE i - 1
RECURSIVE TrailCount(_, _, _)
TrailCount(s, P(_), n) ==
    IF n < Len(s) /\ P(s[Len(s) - n]) THEN TrailCount(s, P, n + 1) ELSE n

LStrip(s) == Drop(s, LeadCount(s, IsReSpace, 1))
RStrip(s) == Take(s, Len(s) - TrailCount(s, IsReSpace, 0))
\* str.strip()
Strip(s) == RStrip(LStrip(s))

\* sub in s  (substring test) and s.startswith(sub)
StartsWithAt(s, sub, i) ==
    /\ i + Len(sub) - 1 <= Len(s)
    /\ \A k \in 1..Len(sub) : s[i + k - 1] = sub[k]
Contains(s, sub) == \E i \in 1..(Len(s) + 1) : StartsWithAt(s, sub, i)
StartsWith(s, sub) == StartsWithAt(s, sub, 1)

\* s.replace(old, new): every non-overlapping occurrence, left to right
RECURSIVE ReplaceFrom(_, _, _, _)
ReplaceFrom(s, old, new, i) ==
    IF i > Len(s) THEN <<>>
    ELSE IF StartsWithAt(s, old, i)
         THEN new \o ReplaceFrom(s, old, new, i + Len(old))
         ELSE <<s[i]>> \o ReplaceFrom(s, old, new, i + 1)
Replace(s, old, new) == ReplaceFrom(s, old, new, 1)

\* int(s) for a run of digits
RECURSIVE IntOf(_)
IntOf(s) == IF s = <<>> THEN 0
            ELSE 10 * IntOf(Take(s, Len(s) - 1)) + DigitVal(s[Len(s)])
\* str(n) for n >= 0
RECURSIVE StrOf(_)
StrOf(n) == IF n < 10 THEN <<DigitSeq[n + 1]>>
            ELSE StrOf(n \div 10) \o <<DigitSeq[(n % 10) + 1]>>
\* padding that adds a zero whatever the length (a mutant of ZFill2)
ZFillOne(s) == <<"0">> \o s
\* no padding at all (a mutant of ZFill2)
NoFill(s) == s
\* s.zfill(2) for a run of digits
ZFill2(s) == IF Len(s) < 2 THEN [i \in 1..(2 - Len(s)) |-> "0"] \o s ELSE s

\* norm_text: translate(_ZEN2HAN).strip()
norm_text(s) == Strip(MapStr(s, Zen2HanChar))
\* norm_text on an optional argument: (s or "") is "" for None
OrEmpty(o) == IF o.none THEN <<>> ELSE o.text
norm_text_of(o) == norm_text(OrEmpty(o))

\* ------------------------------------------------------------------------
\* Schedule table (a pandas DataFrame read with dtype=str): a function from
\* column name to the column's values, one per row.  The column named
\* "period" holds the period numbers as text.
\* ------------------------------------------------------------------------
PeriodCol == <<"p", "e", "r", "i", "o", "d">>

\* df["period"].astype(int)
PeriodInts(df) == [i \in DOMAIN df[PeriodCol] |-> IntOf(df[PeriodCol][i])]

\* cur.split(";"), each part stripped, the empty ones dropped
RECURSIVE SplitOn(_, _)
SplitOn(s, sep) ==
    IF \E i \in 1..Len(s) : s[i] = sep
    THEN LET i == CHOOSE j \in 1..Len(s) :
                      s[j] = sep /\ \A k \in 1..(j - 1) : s[k] # sep
         IN <<Take(s, i - 1)>> \o SplitOn(Drop(s, i), sep)
    ELSE <<s>>
CellVals(cur) ==
    LET parts == SplitOn(cur, ";")
    IN {Strip(parts[i]) : i \in {j \in DOMAIN parts : Strip(parts[j]) # <<>>}}

SetCell(df, idx, room, v) == [df EXCEPT ![room] = [@ EXCEPT ![idx] = v]]

\* a write that replaces what the cell held (a mutant of CellWrite)
CellOverwrite(df, idx, room, cur, value) == SetCell(df, idx, room, value)

\* the table after a put_cell that got past the guards onto row idx: the
\* value written, appended after ";", or nothing when it is already listed
CellWrite(df, idx, room, cur, value) ==
    IF cur = <<>> THEN SetCell(df, idx, room, value)
    ELSE IF value \notin CellVals(cur)
         THEN SetCell(df, idx, room, cur \o <<";">> \o value)
    ELSE df

\* the first row whose period is the one asked for (df.index[...][0]), 0
\* where there is none
RowOf(df, period) ==
    LET hits == {i \in DOMAIN df[PeriodCol] : PeriodInts(df)[i] = period}
    IN IF hits = {} THEN 0 ELSE CHOOSE i \in hits : \A j \in hits : i <= j

\* put_cell after its two guards: the row lookup, the read and the write
put_cell_at(df, idx, room, value) ==
    IF idx = 0 \/ room \notin DOMAIN df
    THEN [raised |-> TRUE, df |-> df]      \* IndexError / KeyError
    ELSE [raised |-> FALSE,
          df |-> CellWrite(df, idx, room, Strip(df[room][idx]), value)]
put_cell_fill(df, period, room, value) ==
    put_cell_at(df, RowOf(df, period), room, value)
\* a put_cell that lacks the guards (the mutant of put_cell)
put_cell_unguarded(df, period, room, value) == put_cell_fill(df, period, room, value)

\* put_cell(df, period, room, value): the table after the call, and whether
\* the call raised
put_cell(df, period, room, value) ==
    IF room \notin DOMAIN df THEN [raised |-> FALSE, df |-> df]
    ELSE IF period \notin Range(PeriodInts(df)) THEN [raised |-> FALSE, df |-> df]
    ELSE put_cell_fill(df, period, room, value)

\* ------------------------------------------------------------------------
\* Regular-expression pieces shared by the text functions
\* ------------------------------------------------------------------------
AllOf(s, P(_)) == \A i \in 1..Len(s) : P(s[i])
IsAsciiAlpha(c) == c \in AsciiAlpha
IsColon(c) == c \in {":", "FW:"}

\* what is left of s after a greedy \s*, a greedy \d*, one character
SkipSpaces(s) == Drop(s, LeadCount(s, IsReSpace, 1))
SkipDigits(s) == Drop(s, LeadCount(s, IsReDigit, 1))
SkipOne(s) == IF s # <<>> THEN Drop(s, 1) ELSE <<>>
\* the length of the run of digits a greedy \d* takes
NumDigits(s) == LeadCount(s, IsReDigit, 1)
\* what is left of s after an optional literal w / after a required literal
\* w ("!" where w is missing, which no later piece matches)
SkipWord(s, w) == IF StartsWith(s, w) THEN Drop(s, Len(w)) ELSE s
NeedWord(s, w) == IF StartsWith(s, w) THEN Drop(s, Len(w)) ELSE <<"!">>
\* the least element of a non-empty set of positions
FirstOf(is) == CHOOSE i \in is : \A j \in is : i <= j
\* re.search: M(s, i) is the match starting at position i or <<>>; the
\* leftmost match, or <<>>
FirstMatch(s, M(_, _)) ==
    LET is == {i \in 1..Len(s) : M(s, i) # <<>>}
    IN IF is = {} THEN <<>> ELSE M(s, FirstOf(is))

\* re.sub(r"^\s*\d{1,2}\s*[:：]\s*", "", s)
StripKeyPrefix(s) ==
    LET r1 == SkipSpaces(s)
        r3 == SkipSpaces(SkipDigits(r1))
    IN IF NumDigits(r1) \in {1, 2} /\ r3 # <<>> /\ IsColon(r3[1])
       THEN SkipSpaces(Drop(r3, 1))
       ELSE s
\* first index j > i with s[j] = close and no line break in between, or 0
CloseAt(s, i, close) ==
    LET js == {j \in (i + 1)..Len(s) :
                 s[j] = close /\ \A k \in (i + 1)..(j - 1) : s[k] # "\n"}
    IN IF js = {} THEN 0 ELSE CHOOSE j \in js : \A k \in js : j <= k

\* re.sub(r"（.*?）|\(.*?\)", "", s)
RECURSIVE StripParensFrom(_, _)
StripParensFrom(s, i) ==
    IF i > Len(s) THEN <<>>
    ELSE LET close == IF s[i] = "FW(" THEN CloseAt(s, i, "FW)")
                      ELSE IF s[i] = "(" THEN CloseAt(s, i, ")")
                      ELSE 0
         IN IF close > 0 THEN StripParensFrom(s, close + 1)
            ELSE <<s[i]>> \o StripParensFrom(s, i + 1)
StripParens(s) == StripParensFrom(s, 1)

\* the parts joined without the "-" (a mutant of JoinDash)
JoinPlain(parts) == IF Len(parts) = 3 THEN parts[1] \o parts[2] \o parts[3] ELSE <<>>
\* "-".join(parts)
RECURSIVE JoinDash(_)
JoinDash(parts) ==
    IF Len(parts) = 0 THEN <<>>
    ELSE IF Len(parts) = 1 THEN parts[1]
    ELSE parts[1] \o <<"-">> \o JoinDash(Tail(parts))

\* \d+ and \d{n}
IsDigits(p) == Len(p) >= 1 /\ AllOf(p, IsReDigit)
IsNDigits(p, n) == Len(p) = n /\ AllOf(p, IsReDigit)
\* \d+[A-Za-z]*
IsDigitsAlpha(p) ==
    LET d == LeadCount(p, IsReDigit, 1)
    IN d >= 1 /\ AllOf(Drop(p, d), IsAsciiAlpha)
\* [A-Za-z]
IsLetter(p) == Len(p) = 1 /\ IsAsciiAlpha(p[1])

\* ------------------------------------------------------------------------
\* norm_room: the rule cascade, first match wins
\* ------------------------------------------------------------------------
\* the end-room pattern never matching (a mutant of MatchPcJa)
MatchPcJaNever(s) == <<>>
\* re.match(r"(\d+)号館\d*階?末端室?([A-Za-zＡ-Ｚａ-ｚ])[ルー]*ム?", s):
\* <<building, letter>> or <<>>
MatchPcJa(s) ==
    LET r4 == SkipWord(SkipDigits(NeedWord(SkipDigits(s), <<"gou", "kan">>)), <<"kai">>)
        r6 == SkipWord(NeedWord(r4, <<"matsu", "tan">>), <<"shitsu">>)
    IN IF /\ NumDigits(s) >= 1
          /\ StartsWith(SkipDigits(s), <<"gou", "kan">>)
          /\ StartsWith(r4, <<"matsu", "tan">>)
          /\ r6 # <<>>
          /\ r6[1] \in AsciiAlpha \cup FwUpper \cup FwLower
       THEN <<Take(s, NumDigits(s)), <<r6[1]>> >>
       ELSE <<>>

\* the rules applied to the fully normalised text s, p its parts between
\* the "-" (collect.py lines 77-132)
RoomShape(s, p) ==
    LET n == Len(p)
    IN IF s = <<"6", "1", "-", "1", "0", "2">> THEN <<"6", "1", "-", "1", "0", "2", "B">>
       \* ^(\d+)-\d+F-([A-Za-z])$
       ELSE IF /\ n = 3 /\ IsDigits(p[1]) /\ IsLetter(p[3])
               /\ Len(p[2]) >= 2 /\ p[2][Len(p[2])] = "F"
               /\ IsDigits(Take(p[2], Len(p[2]) - 1))
            THEN p[1] \o <<"P", "C", "-">> \o StrUpper(p[3])
       \* ^\d+[A-Za-z]*-\d{2}-\d{2}$
       ELSE IF n = 3 /\ IsDigitsAlpha(p[1]) /\ IsNDigits(p[2], 2) /\ IsNDigits(p[3], 2)
            THEN s
       \* ^\d+PC-[A-Za-z]$
       ELSE IF /\ n = 2 /\ IsLetter(p[2]) /\ Len(p[1]) >= 3
               /\ Drop(p[1], Len(p[1]) - 2) = <<"P", "C">>
               /\ IsDigits(Take(p[1], Len(p[1]) - 2))
            THEN s
       \* ^\d+-B\d{2}$
       ELSE IF /\ n = 2 /\ IsDigits(p[1]) /\ Len(p[2]) = 3 /\ p[2][1] = "B"
               /\ IsNDigits(Drop(p[2], 1), 2)
            THEN s
       \* ^(\d+[A-Za-z]*)-(\d+)-(\d+)$
       ELSE IF n = 3 /\ IsDigitsAlpha(p[1]) /\ IsDigits(p[2]) /\ IsDigits(p[3])
            THEN JoinDash(<<p[1], ZFill2(p[2]), ZFill2(p[3])>>)
       \* ^(\d+[A-Za-z]*-\d{2}-\d{2})(?:-\d+)?$
       ELSE IF /\ n = 4 /\ IsDigitsAlpha(p[1]) /\ IsNDigits(p[2], 2)
               /\ IsNDigits(p[3], 2) /\ IsDigits(p[4])
            THEN JoinDash(<<p[1], p[2], p[3]>>)
       \* ^(\d+)-(\d{3})([A-Za-z])?$
       ELSE IF /\ n = 2 /\ IsDigits(p[1])
               /\ \/ IsNDigits(p[2], 3)
                  \/ Len(p[2]) = 4 /\ IsNDigits(Take(p[2], 3), 3) /\ IsAsciiAlpha(p[2][4])
            THEN LET digits == Take(p[2], 3)
                     suffix == Drop(p[2], 3)
                 IN IF p[1] = <<"6", "3">>
                    THEN JoinDash(<<p[1], ZFill2(Take(digits, 1)), Drop(digits, 1)>>)
                    ELSE p[1] \o <<"-">> \o digits \o StrUpper(suffix)
       \* ^(\d+)-(\d{1,2})$
       ELSE IF n = 2 /\ IsDigits(p[1]) /\ (IsNDigits(p[2], 1) \/ IsNDigits(p[2], 2))
            THEN p[1] \o <<"-">> \o ZFill2(p[2])
       ELSE s

NormRoomShapes(s) == RoomShape(s, SplitOn(s, "-"))

\* norm_room from line 52 on, s0 the text without key prefix and parentheses
NormRoomStripped(s0) ==
    LET ja == MatchPcJa(s0)
        s1 == Replace(Replace(Replace(Replace(Replace(norm_text(s0),
                  <<"kyou", "shitsu">>, <<>>), <<"shitsu">>, <<>>), <<"RU", "CHOON", "MU">>, <<>>),
                  <<"RU", "-", "MU">>, <<>>), <<" ">>, <<>>)
    IN IF Contains(s0, <<"mi", "tei">>) \/ s0 = <<>> \/ Contains(StrUpper(s0), <<"T", "B", "D">>)
       THEN <<>>
       ELSE IF ja # <<>>
            THEN norm_text(ja[1]) \o <<"P", "C", "-">> \o StrUpper(norm_text(ja[2]))
       ELSE IF s1 = <<>> THEN <<>>
       ELSE NormRoomShapes(s1)

norm_room(raw) == NormRoomStripped(StripParens(StripKeyPrefix(norm_text(raw))))
\* ------------------------------------------------------------------------
\* parse_day_periods
\* ------------------------------------------------------------------------
DAY_MAP_JA == [getsu |-> "mon", ka |-> "tue", sui |-> "wed", moku |-> "thu",
               kin |-> "fri", do |-> "sat", nichi |-> "sun"]
\* the alternatives of the English day pattern, in the pattern's order,
\* each with and without its optional "."
DayWordsEn == <<
    <<<<"M", "o", "n">>, "mon">>, <<<<"T", "u", "e">>, "tue">>, <<<<"T", "u", "e", "s">>, "tue">>,
    <<<<"W", "e", "d">>, "wed">>, <<<<"T", "h", "u">>, "thu">>, <<<<"T", "h", "u", "r">>, "thu">>,
    <<<<"F", "r", "i">>, "fri">>, <<<<"S", "a", "t">>, "sat">>, <<<<"S", "u", "n">>, "sun">> >>

\* \b at the gap before position i (between s[i-1] and s[i])
WordBoundary(s, i) ==
    LET before == i > 1 /\ i - 1 <= Len(s) /\ IsReWord(s[i - 1])
        after  == i >= 1 /\ i <= Len(s) /\ IsReWord(s[i])
    IN before # after

\* the end (exclusive) of alternative w matched at i followed by \b, or 0:
\* the optional "." is tried first, then left out
EnAltEnd(s, i, w) ==
    IF ~StartsWithAt(s, w, i) THEN 0
    ELSE LET e == i + Len(w)
         IN IF e <= Len(s) /\ s[e] = "." /\ WordBoundary(s, e + 1) THEN e + 1
            ELSE IF WordBoundary(s, e) THEN e
            ELSE 0

\* re.search(r"\b(Mon\.?|Tue\.?|...)\b", s): <<day, end>> or <<>>;
\* at one position the leftmost alternative that matches is taken
RECURSIVE EnAltFrom(_, _, _)
EnAltFrom(s, i, k) ==
    IF k > Len(DayWordsEn) THEN <<>>
    ELSE IF EnAltEnd(s, i, DayWordsEn[k][1]) > 0
         THEN <<DayWordsEn[k][2], EnAltEnd(s, i, DayWordsEn[k][1])>>
    ELSE EnAltFrom(s, i, k + 1)
EnMatchAt(s, i) == IF WordBoundary(s, i) THEN EnAltFrom(s, i, 1) ELSE <<>>
SearchDayEn(s) == FirstMatch(s, EnMatchAt)
\* re.sub(r"\bto\b", "-", rest, flags=re.IGNORECASE)
RECURSIVE SubToFrom(_, _)
SubToFrom(s, i) ==
    IF i > Len(s) THEN <<>>
    ELSE IF /\ StartsWithAt(StrLower(s), <<"t", "o">>, i)
            /\ s[i] \in {"t", "T"} /\ s[i + 1] \in {"o", "O"}
            /\ WordBoundary(s, i) /\ WordBoundary(s, i + 2)
         THEN <<"-">> \o SubToFrom(s, i + 2)
         ELSE <<s[i]>> \o SubToFrom(s, i + 1)

PeriodDigit == {"1", "2", "3", "4", "5", "6", "7"}
RangeDash == {"-", "~", "WAVE", "FW-", "ENDASH"}

\* re.search(r"([1-7])\s*[-~〜－–]\s*([1-7])", rest): <<a, b>> or <<>>
RangeAt(s, i) ==
    LET r2 == SkipSpaces(Drop(s, i))
        r4 == SkipSpaces(SkipOne(r2))
    IN IF /\ s[i] \in PeriodDigit
          /\ r2 # <<>> /\ r2[1] \in RangeDash
          /\ r4 # <<>> /\ r4[1] \in PeriodDigit
       THEN <<DigitVal(s[i]), DigitVal(r4[1])>>
       ELSE <<>>
SearchRange(s) == FirstMatch(s, RangeAt)
\* list(range(lo, hi + 1))
IntRange(lo, hi) == [i \in 1..(hi - lo + 1) |-> lo + i - 1]

\* [int(x) for x in re.findall(r"\b([1-7])\b", rest)]
RECURSIVE FindPeriodsFrom(_, _)
FindPeriodsFrom(s, i) ==
    IF i > Len(s) THEN <<>>
    ELSE IF s[i] \in PeriodDigit /\ WordBoundary(s, i) /\ WordBoundary(s, i + 1)
         THEN <<DigitVal(s[i])>> \o FindPeriodsFrom(s, i + 1)
         ELSE FindPeriodsFrom(s, i + 1)

\* the digits found, repeats kept (a mutant of DedupKeepFirst)
KeepAll(nums) == nums
\* the seen-set loop: duplicates dropped, order of first occurrence kept
RECURSIVE DedupKeepFirst(_)
DedupKeepFirst(nums) ==
    IF nums = <<>> THEN <<>>
    ELSE LET init == DedupKeepFirst(Take(nums, Len(nums) - 1))
             n == nums[Len(nums)]
         IN IF n \in Range(init) THEN init ELSE Append(init, n)

\* the periods of a range match rg = <<a, b>>, lower end first
RangePeriods(rg) ==
    IF rg[1] <= rg[2] THEN IntRange(rg[1], rg[2]) ELSE IntRange(rg[2], rg[1])

\* the period list read from the rest of the item, "to" and the period
\* word already replaced; <<>> where none is found
PeriodsIn(rest) ==
    IF SearchRange(rest) # <<>> THEN RangePeriods(SearchRange(rest))
    ELSE DedupKeepFirst(FindPeriodsFrom(rest, 1))

\* the part of parse_day_periods after the day token: the period list, or
\* <<>> where the function returns None (no period found)
PeriodsOf(rest0) == PeriodsIn(SubToFrom(Replace(rest0, <<"ji", "gen">>, <<" ">>), 1))

\* Python's None as the result of parse_day_periods
NoDayPeriods == [ok |-> FALSE, day |-> "", periods |-> <<>>]

\* the result for a day and the period list found after it
DayResult(day, ps) ==
    IF ps = <<>> THEN NoDayPeriods ELSE [ok |-> TRUE, day |-> day, periods |-> ps]
\* the result for an English day match en = <<day, end>>
DayResultEn(s, en) == DayResult(en[1], PeriodsOf(Drop(s, en[2] - 1)))

\* parse_day_periods on the normalised item without its key prefix
ParseDayIn(s) ==
    LET ja == {i \in 1..Len(s) : s[i] \in DOMAIN DAY_MAP_JA}
    IN IF \/ StartsWith(s, <<"mu">>)
          \/ Contains(s, <<"O", "n", " ", "d", "e", "m", "a", "n", "d">>)
          \/ Contains(s, <<"O", "D">>)
       THEN NoDayPeriods
       ELSE IF ja # {}
            THEN DayResult(DAY_MAP_JA[s[FirstOf(ja)]], PeriodsOf(Drop(s, FirstOf(ja))))
       ELSE IF SearchDayEn(s) # <<>> THEN DayResultEn(s, SearchDayEn(s))
       ELSE NoDayPeriods

\* parse_day_periods(item): the day and the period list, or None
parse_day_periods(item) == ParseDayIn(StripKeyPrefix(norm_text(item)))
\* ------------------------------------------------------------------------
\* keyed_lines, pair_day_and_room
\* ------------------------------------------------------------------------
\* one line of keyed_lines: re.match(r"^(\d{1,2})\s*[:：]\s*(.*)$", s2);
\* the key None is the empty string
KeyedLine(s2) ==
    LET r3 == SkipSpaces(SkipDigits(s2))
        r5 == SkipSpaces(SkipOne(r3))
    IN IF /\ NumDigits(s2) \in {1, 2} /\ r3 # <<>> /\ IsColon(r3[1])
          /\ \A i \in 1..Len(r5) : r5[i] # "\n"
       THEN [key |-> ZFill2(Take(s2, NumDigits(s2))), value |-> Strip(r5)]
       ELSE [key |-> <<>>, value |-> s2]
RECURSIVE keyed_lines(_)
keyed_lines(lines) ==
    IF lines = <<>> THEN <<>>
    ELSE LET s2 == norm_text(Head(lines))
         IN IF s2 = <<>> THEN keyed_lines(Tail(lines))
            ELSE <<KeyedLine(s2)>> \o keyed_lines(Tail(lines))

\* a key-matching loop that does not take the room line out of its queue
\* (a mutant of PairByKey)
RECURSIVE PairByKeyReuse(_, _, _, _)
PairByKeyReuse(dayE, roomE, i, st) ==
    IF i > Len(dayE) THEN st
    ELSE LET queue == {r \in DOMAIN roomE : roomE[r].key = dayE[i].key}
         IN IF dayE[i].key = <<>> \/ queue = {}
            THEN PairByKeyReuse(dayE, roomE, i + 1, st)
            ELSE PairByKeyReuse(dayE, roomE, i + 1,
                     [used_day  |-> st.used_day \cup {i},
                      used_room |-> st.used_room,
                      pairs |-> Append(st.pairs,
                                  <<dayE[i].value,
                                    roomE[CHOOSE r \in queue : \A q \in queue : r <= q].value>>)])

\* the key-matching loop of pair_day_and_room from day line i on:
\* room_by_key[key].popleft() is the lowest room index of that key not yet used
RECURSIVE PairByKey(_, _, _, _)
PairByKey(dayE, roomE, i, st) ==
    IF i > Len(dayE) THEN st
    ELSE LET queue == {r \in DOMAIN roomE :
                         roomE[r].key = dayE[i].key /\ r \notin st.used_room}
         IN IF dayE[i].key = <<>> \/ queue = {}
            THEN PairByKey(dayE, roomE, i + 1, st)
            ELSE LET room_idx == CHOOSE r \in queue : \A q \in queue : r <= q
                 IN PairByKey(dayE, roomE, i + 1,
                        [used_day  |-> st.used_day \cup {i},
                         used_room |-> st.used_room \cup {room_idx},
                         pairs |-> Append(st.pairs,
                                     <<dayE[i].value, roomE[room_idx].value>>)])

\* every value, the used ones too (a mutant of Unused)
UnusedAll(e, used, i) == [k \in 1..Len(e) |-> e[k].value]

\* [e[i].value for i in range(len(e)) if i not in used]
RECURSIVE Unused(_, _, _)
Unused(e, used, i) ==
    IF i > Len(e) THEN <<>>
    ELSE IF i \in used THEN Unused(e, used, i + 1)
    ELSE <<e[i].value>> \o Unused(e, used, i + 1)

Min(a, b) == IF a <= b THEN a ELSE b
Max(a, b) == IF a >= b THEN a ELSE b

\* the pairing of the keyed entries: by key first, then the rest in order
PairEntries(day_entries, room_entries) ==
    LET st == PairByKey(day_entries, room_entries, 1,
                        [used_day |-> {}, used_room |-> {}, pairs |-> <<>>])
        day_seq == Unused(day_entries, st.used_day, 1)
        room_seq == Unused(room_entries, st.used_room, 1)
    IN st.pairs \o [i \in 1..Min(Len(day_seq), Len(room_seq)) |->
                       <<day_seq[i], room_seq[i]>>]

\* pair_day_and_room(day_lines, room_lines): the (day text, room text) pairs
pair_day_and_room(day_lines, room_lines) ==
    PairEntries(keyed_lines(day_lines), keyed_lines(room_lines))
\* ------------------------------------------------------------------------
\* targets_from_term
\* ------------------------------------------------------------------------
\* a term read as the first season it names only (a mutant of
\* targets_from_term)
targets_first_season(term) ==
    IF Contains(StrLower(norm_text(term)), <<"f", "a", "l", "l">>) THEN <<"fall">>
    ELSE IF Contains(StrLower(norm_text(term)), <<"w", "i", "n", "t", "e", "r">>) THEN <<"winter">>
    ELSE <<>>
targets_from_term(term) ==
    LET t == norm_text(term)
        tl == StrLower(t)
    IN IF Contains(t, <<"aki", "gaku", "ki">>) THEN <<"fall", "winter">>
       ELSE IF Contains(t, <<"aki", "KU", "XO", "CHOON", "TA", "CHOON">>) THEN <<"fall">>
       ELSE IF Contains(t, <<"fuyu", "KU", "XO", "CHOON", "TA", "CHOON">>) THEN <<"winter">>
       ELSE IF \/ Contains(tl, <<"f", "a", "l", "l", " ", "s", "e", "m", "e", "s", "t", "e", "r">>)
               \/ Contains(tl, <<"f", "a", "l", "l">>) /\ Contains(tl, <<"s", "e", "m", "e", "s", "t", "e", "r">>)
            THEN <<"fall", "winter">>
       ELSE IF Contains(tl, <<"f", "a", "l", "l", " ", "q", "u", "a", "r", "t", "e", "r">>) THEN <<"fall">>
       ELSE IF Contains(tl, <<"w", "i", "n", "t", "e", "r", " ", "q", "u", "a", "r", "t", "e", "r">>) THEN <<"winter">>
       ELSE <<>>

\* ------------------------------------------------------------------------
\* _parse_range_indicator
\* ------------------------------------------------------------------------
\* the pattern (\d+)\s*[～\-]\s*(\d+)\s*[／/]\s*(\d+) matched at i:
\* <<start, end, total>> or <<>>
RangeIndicatorAt(s, i) ==
    LET r0 == Drop(s, i - 1)
        r2 == SkipSpaces(SkipDigits(r0))
        r4 == SkipSpaces(SkipOne(r2))
        r6 == SkipSpaces(SkipDigits(r4))
        r8 == SkipSpaces(SkipOne(r6))
    IN IF /\ NumDigits(r0) >= 1 /\ r2 # <<>> /\ r2[1] \in {"FW~", "-"}
          /\ NumDigits(r4) >= 1 /\ r6 # <<>> /\ r6[1] \in {"FW/", "/"}
          /\ NumDigits(r8) >= 1
       THEN <<IntOf(Take(r0, NumDigits(r0))), IntOf(Take(r4, NumDigits(r4))),
              IntOf(Take(r8, NumDigits(r8)))>>
       ELSE <<>>

\* _parse_range_indicator(text): <<start, end, total>>, or <<>> for None
parse_range_indicator(text) == FirstMatch(norm_text(text), RangeIndicatorAt)
\* ------------------------------------------------------------------------
\* The result list served by the site, and the tables of one run
\* ------------------------------------------------------------------------
\* bounds of the model: the largest result set and the largest page size
MaxTotal == 3
MaxPer == 2

DAYS == <<"mon", "tue", "wed", "thu", "fri">>

\* a result row: its <td> cells, each the list of its <br>-separated lines
Row(code, name, term, day_lines, room_lines) ==
    << <<>>, <<code>>, <<name>>, <<>>, <<>>, <<term>>, day_lines, room_lines >>

RowFallMon5 == Row(<<"A", "1">>, <<"I", "n", "t", "r", "o">>, <<"f", "a", "l", "l", " ", "s", "e", "m", "e", "s", "t", "e", "r">>, <<<<"getsu", "5", "ji", "gen">>>>, <<<<"5", "3", "-", "1", "0", "1">>>>)
RowWinterTue2 == Row(<<"B", "2">>, <<"L", "a", "b">>, <<"w", "i", "n", "t", "e", "r", " ", "q", "u", "a", "r", "t", "e", "r">>, <<<<"T", "u", "e", ".", "2">>>>, <<<<"6", "3", "-", "3", "F", "-", "G">>>>)
\* two keyed slots: period 7 on Monday and period 1 on Saturday
RowLateAndSat == Row(<<"C", "3">>, <<"E", "v", "e">>, <<"f", "a", "l", "l", " ", "q", "u", "a", "r", "t", "e", "r">>,
                     <<<<"0", "1", ":", "getsu", "7", "ji", "gen">>, <<"0", "2", ":", "do", "1", "ji", "gen">>>>, <<<<"0", "2", ":", "5", "3", "-", "1", "0", "1">>, <<"0", "1", ":", "5", "3", "-", "1", "0", "1">>>>)
\* rooms outside the roster: one is a column of the tables, one resolves to ""
RowOffRoster == Row(<<"D", "4">>, <<"E", "x", "t">>, <<"aki", "gaku", "ki">>,
                    <<<<"W", "e", "d", ".", "3", "-", "4">>, <<"mu", "SO", "NO", "TA_">>, <<"moku", "FW6", "ji", "gen">>>>, <<<<"9", "9", "-", "9", "9", "9">>, <<"5", "3", "-", "1", "0", "1">>, <<"mi", "tei">>>>)
\* a course title holding the cell separator
RowSemicolon == Row(<<"FWE", "FW5">>, <<"L", "a", "w", ";", "E", "t", "h", "i", "c", "s">>, <<"F", "a", "l", "l", " ", "S", "e", "m", "e", "s", "t", "e", "r">>, <<<<"M", "o", "n", ".", "5", "-", "6">>>>, <<<<"FW5", "FW3", "-", "FW1", "FW0", "FW1", "kyou", "shitsu">>>>)
\* a spring course, a row with too few cells, a roster room that is no column
RowSpring == Row(<<"F", "6">>, <<"O", "l", "d">>, <<"s", "p", "r", "i", "n", "g", " ", "s", "e", "m", "e", "s", "t", "e", "r">>, <<<<"getsu", "5", "ji", "gen">>>>, <<<<"5", "3", "-", "1", "0", "1">>>>)
RowShort == << <<>>, <<<<"G", "7">>>>, <<<<"C", "u", "t">>>> >>
RowNoColumn == Row(<<"H", "8">>, <<"F", "a", "r">>, <<"w", "i", "n", "t", "e", "r", " ", "q", "u", "a", "r", "t", "e", "r">>, <<<<"F", "r", "i", ".", "1">>>>, <<<<"5", "4", "-", "B", "0", "1">>>>)

\* an unparseable slot followed by a good one
RowMixed == Row(<<"M", "9">>, <<"M", "i", "x">>, <<"f", "a", "l", "l", " ", "q", "u", "a", "r", "t", "e", "r">>, <<<<"mu", "SO", "NO", "TA_">>, <<"T", "h", "u", ".", "3">>>>, <<<<"5", "3", "-", "1", "0", "1">>, <<"6", "3", "-", "3", "F", "-", "G">>>>)

RowPool == <<RowFallMon5, RowWinterTue2, RowLateAndSat, RowOffRoster, RowSemicolon,
             RowSpring, RowShort, RowNoColumn, RowMixed>>

\* room_capacity.csv, column classroom; room_set is its image under norm_room
RosterRaw == {<<"5", "3", "-", "1", "0", "1">>, <<"6", "3", "-", "3", "F", "-", "G">>, <<"5", "4", "-", "B", "0", "1">>}
room_set == {norm_room(r) : r \in RosterRaw}

\* the columns and the period rows of every day's CSV
TableRooms == {<<"5", "3", "-", "1", "0", "1">>, <<"6", "3", "P", "C", "-", "G">>, <<"9", "9", "-", "9", "9", "9">>}
TablePeriods == <<<<"1">>, <<"2">>, <<"3">>, <<"4">>, <<"5">>, <<"6">>, <<"7">>>>
EmptyDf == [c \in TableRooms \cup {PeriodCol} |->
               IF c = PeriodCol THEN TablePeriods
               ELSE [i \in DOMAIN TablePeriods |-> <<>>]]
EmptyWeek == [d \in Range(DAYS) |-> EmptyDf]

\* the tables as load_week_csvs finds them (fall, winter), by pre-run choice
PreSel == {"empty", "filled"}
PreTables(sel) ==
    IF sel = "empty" THEN [fall |-> EmptyWeek, winter |-> EmptyWeek]
    ELSE [fall |-> [EmptyWeek EXCEPT
                      !["mon"] = SetCell(@, 5, <<"5", "3", "-", "1", "0", "1">>, <<"Z", "9", ":", "P", "a", "s", "t", ";", " ", "A", "1", ":", "I", "n", "t", "r", "o">>),
                      !["wed"] = SetCell(@, 3, <<"9", "9", "-", "9", "9", "9">>, <<"Z", "9", ":", "P", "a", "s", "t">>)],
          winter |-> [EmptyWeek EXCEPT
                      !["tue"] = SetCell(@, 2, <<"6", "3", "P", "C", "-", "G">>, <<" ">>),
                      !["mon"] = SetCell(@, 7, <<"5", "3", "-", "1", "0", "1">>, <<"Z", "9", ":", "P", "a", "s", "t">>)]]

\* ---- the site ----------------------------------------------------------
\* site.total rows at site.per rows a page; fmt is how the range indicator
\* is written; fn, form, link say which pager mechanisms the pages carry;
\* reach is the last page navigation still gets to (later requests leave
\* the display as it is); beyond is what a request past the last page shows
Formats == {"plain", "fullwidth", "words"}
Beyond == {"stay", "blank"}

CeilDiv(a, b) == (a + b - 1) \div b
NPages(site) == CeilDiv(site.total, site.per)
PageStart(site, k) == (k - 1) * site.per + 1
PageEnd(site, k) == Min(k * site.per, site.total)

Sites == {s \in [total : 1..MaxTotal, per : 1..MaxPer, fmt : Formats,
                 fn : BOOLEAN, form : BOOLEAN, link : BOOLEAN,
                 beyond : Beyond, reach : 1..MaxTotal] :
            s.reach <= NPages(s)}

FwStr(s) == [i \in 1..Len(s) |-> FwDigitSeq[IndexOf(DigitSeq, s[i])]]

\* the text of "div.c-selectall font" on page k; page 0 is the page without
\* results (no table, no indicator)
IndicatorText(site, k) ==
    IF k = 0 THEN <<>>
    ELSE IF site.fmt = "plain"
         THEN StrOf(PageStart(site, k)) \o <<"FW~">> \o StrOf(PageEnd(site, k))
                  \o <<"FW/">> \o StrOf(site.total)
    ELSE IF site.fmt = "fullwidth"
         THEN FwStr(StrOf(PageStart(site, k))) \o <<"FW~">> \o FwStr(StrOf(PageEnd(site, k)))
                  \o <<"FW/">> \o FwStr(StrOf(site.total))
    ELSE <<"p", "a", "g", "e", " ">> \o StrOf(k)

\* the page the site shows in answer to a request for page target
Resolve(site, cur, target) ==
    IF target >= 1 /\ target <= site.reach THEN target
    ELSE IF target > NPages(site) /\ site.reach = NPages(site) /\ site.beyond = "blank"
         THEN 0
    ELSE cur

\* a pager link a[onclick*='page_turning'] with text Next is on page k
HasNextLink(site, k) == site.link /\ k >= 1 /\ k < NPages(site)

\* the data rows of the result table on page k
PageRows(site, catalog, k) == SubSeq(catalog, PageStart(site, k), PageEnd(site, k))

\* ------------------------------------------------------------------------
\* harvest_result_pages: one page of rows
\* ------------------------------------------------------------------------
\* the column indexes used when the header names none (0-based, as in tds[i])
LegacyIdx == [code |-> 1, name |-> 2, term |-> 5, day |-> 6, room |-> 7]

\* split_td_lines on a cell: each line stripped, the empty ones dropped
RECURSIVE split_td_lines(_)
split_td_lines(td) ==
    IF td = <<>> THEN <<>>
    ELSE IF Strip(Head(td)) = <<>> THEN split_td_lines(Tail(td))
    ELSE <<Strip(Head(td))>> \o split_td_lines(Tail(td))

\* td.get_text(" ", strip=True)
RECURSIVE JoinSpace(_)
JoinSpace(lines) ==
    IF lines = <<>> THEN <<>>
    ELSE IF Len(lines) = 1 THEN lines[1]
    ELSE lines[1] \o <<" ">> \o JoinSpace(Tail(lines))
CellText(td) == norm_text(JoinSpace(split_td_lines(td)))

\* the guards of the inner loops (lines 934, 936, 942)
IsWeekday(day) == day \in Range(DAYS)
\* every room taken as a roster room (a mutant of InRoster)
InAnyRoster(room) == TRUE
InRoster(room) == room \in room_set
\* the period guard without its upper end (a mutant of PeriodInRange)
PeriodFromOne(period) == 1 <= period
PeriodInRange(period) == 1 <= period /\ period <= 6

\* f"{course_code}:{course_name}"
CellValue(course_code, course_name) == course_code \o <<":">> \o course_name

\* the accumulator after a put_cell on tables[day] that returned r
StoreCell(acc, which, day, r) ==
    IF r.raised THEN [acc EXCEPT !.raised = TRUE]
    ELSE [acc EXCEPT ![which] = [@ EXCEPT ![day] = r.df], !.filled = @ + 1]

\* one put_cell of the harvest on tables[day]; a day without a table is a
\* KeyError.  acc = [fall, winter, total_rows, filled, raised]
FillOne(acc, which, day, period, room, value) ==
    IF acc.raised THEN acc
    ELSE IF day \notin DOMAIN acc[which] THEN [acc EXCEPT !.raised = TRUE]
    ELSE StoreCell(acc, which, day, put_cell(acc[which][day], period, room, value))

\* if "fall" in targets: ... / if "winter" in targets: ...
FillTarget(acc, targets, which, day, period, room, value) ==
    IF which \in Range(targets) THEN FillOne(acc, which, day, period, room, value)
    ELSE acc

\* for period in periods: ...
RECURSIVE HarvestPeriods(_, _, _, _, _, _, _)
HarvestPeriods(acc, targets, day, periods, room, value, i) ==
    IF i > Len(periods) \/ acc.raised THEN acc
    ELSE IF ~PeriodInRange(periods[i])
         THEN HarvestPeriods(acc, targets, day, periods, room, value, i + 1)
    ELSE HarvestPeriods(
             FillTarget(FillTarget(acc, targets, "fall", day, periods[i], room, value),
                        targets, "winter", day, periods[i], room, value),
             targets, day, periods, room, value, i + 1)

\* one (day_str, room_str) pair, parsed into dp and room
HarvestPair(acc, targets, dp, room, value) ==
    IF ~dp.ok \/ room = <<>> \/ ~IsWeekday(dp.day) \/ ~InRoster(room) THEN acc
    ELSE HarvestPeriods(acc, targets, dp.day, dp.periods, room, value, 1)

\* for day_str, room_str in pairs: ...
RECURSIVE HarvestPairs(_, _, _, _, _)
HarvestPairs(acc, targets, pairs, value, i) ==
    IF i > Len(pairs) \/ acc.raised THEN acc
    ELSE HarvestPairs(
             HarvestPair(acc, targets, parse_day_periods(pairs[i][1]),
                         norm_room(pairs[i][2]), value),
             targets, pairs, value, i + 1)

\* the accumulator after the pairs of a row: the row is counted
CountRow(a) == IF a.raised THEN a ELSE [a EXCEPT !.total_rows = @ + 1]

\* a row with its term read: skipped when the term names no target
HarvestTerm(acc, targets, pairs, value) ==
    IF targets = <<>> THEN acc
    ELSE CountRow(HarvestPairs(acc, targets, pairs, value, 1))

\* the least number of cells a row needs (line 911)
NeedCells(idx) ==
    Max(Max(Max(idx.code, idx.name), Max(idx.term, idx.day)), idx.room) + 1

\* ------------------------------------------------------------------------
\* harvest_result_pages._infer_col_indexes
\* ------------------------------------------------------------------------
\* a pattern is its characters in order, with "RE_S" for \s* and "RE_B" for \b
RECURSIVE ReMatchAt(_, _, _, _)
ReMatchAt(pat, k, s, i) ==
    IF k > Len(pat) THEN TRUE
    ELSE IF pat[k] = "RE_B" THEN WordBoundary(s, i) /\ ReMatchAt(pat, k + 1, s, i)
    ELSE IF pat[k] = "RE_S"
         THEN \E n \in 0..(Len(s) - i + 1) :
                 /\ \A j \in i..(i + n - 1) : IsReSpace(s[j])
                 /\ ReMatchAt(pat, k + 1, s, i + n)
    ELSE i <= Len(s) /\ s[i] = pat[k] /\ ReMatchAt(pat, k + 1, s, i + 1)
\* pat.search(h)
ReSearch(pat, h) == \E i \in 1..(Len(h) + 1) : ReMatchAt(pat, 1, h, i)

\* the patterns of each field (lines 847-862)
FieldPatterns ==
    [year |-> {<<"RE_B">> \o <<"y", "e", "a", "r">> \o <<"RE_B">>, <<"nen", "do_">>},
     code |-> {<<"c", "o", "u", "r", "s", "e">> \o <<"RE_S">> \o <<"c", "o", "d", "e">>, <<"RE_B">> \o <<"c", "o", "d", "e">> \o <<"RE_B">>,
               <<"ka_", "moku_">> \o <<"RE_S">> \o <<"KO", "CHOON", "DO">>},
     name |-> {<<"c", "o", "u", "r", "s", "e">> \o <<"RE_S">> \o <<"t", "i", "t", "l", "e">>, <<"c", "o", "u", "r", "s", "e">> \o <<"RE_S">> \o <<"n", "a", "m", "e">>,
               <<"RE_B">> \o <<"t", "i", "t", "l", "e">> \o <<"RE_B">>, <<"ka_", "moku_">> \o <<"RE_S">> \o <<"mei">>},
     term |-> {<<"RE_B">> \o <<"t", "e", "r", "m">> \o <<"RE_B">>, <<"s", "e", "m", "e", "s", "t", "e", "r">>, <<"gaku", "ki">>, <<"KU", "XO", "CHOON", "TA", "CHOON">>},
     day  |-> {<<"d", "a", "y">> \o <<"RE_S", "/", "RE_S">> \o <<"p", "e", "r", "i", "o", "d">>,
               <<"d", "a", "y">> \o <<"RE_S">> \o <<"a", "n", "d">> \o <<"RE_S">> \o <<"p", "e", "r", "i", "o", "d">>,
               <<"RE_B">> \o <<"d", "a", "y">> \o <<"RE_B">>, <<"you", "nichi">>},
     room |-> {<<"c", "l", "a", "s", "s">> \o <<"RE_S">> \o <<"r", "o", "o", "m">>, <<"RE_B">> \o <<"c", "l", "a", "s", "s", "r", "o", "o", "m">> \o <<"RE_B">>,
               <<"RE_B">> \o <<"r", "o", "o", "m">> \o <<"RE_B">>, <<"kyou", "shitsu">>}]

\* _cell_text(cell): norm_text(cell.get_text(" ", strip=True)).lower()
HeaderText(cell) == StrLower(norm_text(cell))

\* _find_idx(patterns) over the header cells: the 0-based index of the first
\* header one of the patterns is found in, -1 for None
find_idx(header_cells, patterns) ==
    LET hits == {i \in DOMAIN header_cells :
                    \E pat \in patterns : ReSearch(pat, HeaderText(header_cells[i]))}
    IN IF hits = {} THEN -1 ELSE FirstOf(hits) - 1

\* _infer_col_indexes(table) for the cells of the first <tr> (none: no <tr>
\* or no cell in it); a field that is not in the dict returned is -1
infer_col_indexes(header_cells) ==
    [year |-> find_idx(header_cells, FieldPatterns.year),
     code |-> find_idx(header_cells, FieldPatterns.code),
     name |-> find_idx(header_cells, FieldPatterns.name),
     term |-> find_idx(header_cells, FieldPatterns.term),
     day  |-> find_idx(header_cells, FieldPatterns.day),
     room |-> find_idx(header_cells, FieldPatterns.room)]

\* col_idx.get(key, default)
ColGet(col_idx, key, default) == IF col_idx[key] = -1 THEN default ELSE col_idx[key]
\* idx_code, idx_name, idx_term, idx_day, idx_room (lines 900-906)
IdxFrom(col_idx) ==
    [code |-> ColGet(col_idx, "code", LegacyIdx.code),
     name |-> ColGet(col_idx, "name", LegacyIdx.name),
     term |-> ColGet(col_idx, "term", LegacyIdx.term),
     day  |-> ColGet(col_idx, "day", LegacyIdx.day),
     room |-> ColGet(col_idx, "room", LegacyIdx.room)]
UsedIdx(header_cells) == IdxFrom(infer_col_indexes(header_cells))

\* what lines 908-920 read of one <tr> under a header: the row is skipped
\* (continue at line 913) or its five fields are taken from its cells
ReadRow(header_cells, tds) ==
    LET idx == UsedIdx(header_cells)
    IN IF Len(tds) < NeedCells(idx)
       THEN [skipped |-> TRUE, idx |-> idx, fields |-> <<>>]
       ELSE [skipped |-> FALSE, idx |-> idx,
             fields |-> [code |-> CellText(tds[idx.code + 1]),
                         name |-> CellText(tds[idx.name + 1]),
                         term |-> CellText(tds[idx.term + 1]),
                         day  |-> split_td_lines(tds[idx.day + 1]),
                         room |-> split_td_lines(tds[idx.room + 1])]]

\* one <tr> of the result table, read through the column indexes idx
HarvestRowBy(acc, tds, idx) ==
    IF Len(tds) < NeedCells(idx) THEN acc
    ELSE HarvestTerm(acc,
                     targets_from_term(CellText(tds[idx.term + 1])),
                     pair_day_and_room(split_td_lines(tds[idx.day + 1]),
                                       split_td_lines(tds[idx.room + 1])),
                     CellValue(CellText(tds[idx.code + 1]),
                               CellText(tds[idx.name + 1])))
\* a <tr> under a header row that names the columns of the legacy layout
HarvestRow(acc, tds) == HarvestRowBy(acc, tds, LegacyIdx)
\* for tr in rows[1:]: ...
RECURSIVE HarvestRows(_, _, _)
HarvestRows(acc, rows, i) ==
    IF i > Len(rows) \/ acc.raised THEN acc
    ELSE HarvestRows(HarvestRow(acc, rows[i]), rows, i + 1)

\* ------------------------------------------------------------------------
\* State
\* ------------------------------------------------------------------------
VARIABLES
    site,           \* the site of this run (does not change)
    catalog,        \* the rows of the result list, site.total of them
    pre,            \* which pre-run tables the CSVs held
    shown,          \* the page the browser displays (0: no results)
    pending,        \* a page requested and not yet displayed (0: none)
    pc,             \* where harvest_result_pages / go_to_next_page stands
    page_no, total_rows, filled,
    fall_tables, winter_tables,
    before,         \* go_to_next_page: the indicator text read at its start
    shown_at_call,  \* the page displayed when go_to_next_page was called
    tried,          \* the strategies this call has attempted, in order
    ret,            \* what the last go_to_next_page returned
    why,            \* the return statement it left by
    advances,       \* how many times go_to_next_page returned True
    harvested,      \* the page displayed at each pass of the harvest loop
    late,           \* a wait timed out before its navigation showed
    run,            \* 1, or 2 for a second harvest over the same tables
    after_first,    \* the tables as the first harvest left them
    cell_df, cell_prev, cell_call, cell_raised,  \* one table under put_cell
    fn, fn_case,    \* the function last called on its own, and how its input was built
    fn_arg, fn_out, \* its argument and what it returned
    phase,          \* where scrape_and_fill stands ("none": harvest called directly)
    ui,             \* what the search page offers (does not change)
    disk,           \* the content of the fall and winter CSV files
    saves,          \* the save_week_csvs calls made, in order
    searches        \* how many times the search was submitted

navVars == <<shown, pending, pc, page_no, before, shown_at_call, tried, ret,
             why, advances, harvested, late>>
tableVars == <<total_rows, filled, fall_tables, winter_tables>>
runVars == <<site, catalog, pre, run, after_first>>
cellVars == <<cell_df, cell_prev, cell_call, cell_raised>>
pureVars == <<fn, fn_case, fn_arg, fn_out>>
sessVars == <<phase, ui, disk, saves, searches>>
vars == <<navVars, tableVars, runVars, cellVars, pureVars, sessVars>>

NavPcs == {"wait1", "s2", "wait2", "s3", "wait3", "recheck"}

\* ------------------------------------------------------------------------
\* harvest_result_pages: the while loop
\* ------------------------------------------------------------------------
\* the variables of the harvest after the rows of a page
PageHarvested(acc) ==
    /\ fall_tables' = acc.fall
    /\ winter_tables' = acc.winter
    /\ total_rows' = acc.total_rows
    /\ filled' = acc.filled
    /\ pc' = IF acc.raised THEN "raised" ELSE "go"

\* One pass of the loop up to the call of go_to_next_page: count the page,
\* read page.content(), leave the loop if it holds no result table, else
\* harvest its rows.
HarvestPage ==
    /\ pc = "harvest"
    /\ page_no' = page_no + 1
    /\ harvested' = Append(harvested, shown)
    /\ IF shown = 0
       THEN /\ pc' = "done"
            /\ UNCHANGED tableVars
       ELSE PageHarvested(HarvestRows([fall |-> fall_tables, winter |-> winter_tables,
                                       total_rows |-> total_rows, filled |-> filled,
                                       raised |-> FALSE],
                                      PageRows(site, catalog, shown), 1))
    /\ UNCHANGED <<shown, pending, before, shown_at_call, tried, ret, why,
                   advances, late, runVars, cellVars, pureVars, sessVars>>
\* ------------------------------------------------------------------------
\* go_to_next_page
\* ------------------------------------------------------------------------
\* total_pages as computed from the indicator (lines 650-653)
TotalPages(info) == CeilDiv(info[3], Max(1, info[2] - info[1] + 1))

\* a failed advance that aborts the run (a mutant of ReturnFalse)
ReturnFalseAborts(reason) ==
    /\ pc' = "raised"
    /\ ret' = "false"
    /\ why' = reason
    /\ UNCHANGED advances

\* "return False" (at line 655, 781 or 799): the loop breaks and
\* harvest_result_pages returns
ReturnFalse(reason) ==
    /\ pc' = "done"
    /\ ret' = "false"
    /\ why' = reason
    /\ UNCHANGED advances

\* "return True" (at line 695, 745 or 807): back to the top of the loop
ReturnTrue(reason) ==
    /\ pc' = "harvest"
    /\ ret' = "true"
    /\ why' = reason
    /\ advances' = advances + 1

\* a wait that gives up whatever the indicator shows (a mutant of TimedOut)
GivesUp == late' = late

\* wait_for_function("textContent !== prev", arg=before) found the text
\* different from before / ran to its timeout with the text equal to it
TextDiffers == IndicatorText(site, shown) # before
TimedOut ==
    /\ ~TextDiffers
    /\ late' = (late \/ (pending # 0 /\ Resolve(site, shown, pending) # shown))

\* Lines 642-684 with the indicator read: stop on the last page, else
\* strategy 1: call page_turning(target) if the page defines it.
GoFrom(text, info) ==
    /\ before' = text
    /\ shown_at_call' = shown
    /\ IF info # <<>> /\ page_no >= TotalPages(info)
       THEN ReturnFalse("last_page") /\ tried' = <<>> /\ UNCHANGED pending
       ELSE /\ UNCHANGED <<ret, why, advances>>
            /\ IF site.fn
               THEN pending' = page_no + 1 /\ tried' = <<1>> /\ pc' = "wait1"
               ELSE UNCHANGED pending /\ tried' = <<>> /\ pc' = "s2"
GoWith(text) == GoFrom(text, parse_range_indicator(text))

\* go_to_next_page is entered: before = _range_text()
GoStart ==
    /\ pc = "go"
    /\ GoWith(norm_text(IndicatorText(site, shown)))
    /\ UNCHANGED <<shown, page_no, harvested, late, tableVars, runVars, cellVars, pureVars, sessVars>>
\* Lines 686-697
Wait1Ok ==
    /\ pc = "wait1"
    /\ TextDiffers
    /\ ReturnTrue("strategy1")
    /\ UNCHANGED <<shown, pending, page_no, before, shown_at_call, tried,
                   harvested, late, tableVars, runVars, cellVars, pureVars, sessVars>>
Wait1Timeout ==
    /\ pc = "wait1"
    /\ TimedOut
    /\ pc' = "s2"
    /\ UNCHANGED <<shown, pending, page_no, before, shown_at_call, tried, ret,
                   why, advances, harvested, tableVars, runVars, cellVars, pureVars, sessVars>>

\* Lines 699-734: strategy 2, set p_page and submit form cForm if there is one
Strategy2 ==
    /\ pc = "s2"
    /\ IF site.form
       THEN pending' = page_no + 1 /\ tried' = Append(tried, 2) /\ pc' = "wait2"
       ELSE UNCHANGED <<pending, tried>> /\ pc' = "s3"
    /\ UNCHANGED <<shown, page_no, before, shown_at_call, ret, why, advances,
                   harvested, late, tableVars, runVars, cellVars, pureVars, sessVars>>

\* Lines 736-747
Wait2Ok ==
    /\ pc = "wait2"
    /\ TextDiffers
    /\ ReturnTrue("strategy2")
    /\ UNCHANGED <<shown, pending, page_no, before, shown_at_call, tried,
                   harvested, late, tableVars, runVars, cellVars, pureVars, sessVars>>
Wait2Timeout ==
    /\ pc = "wait2"
    /\ TimedOut
    /\ pc' = "s3"
    /\ UNCHANGED <<shown, pending, page_no, before, shown_at_call, tried, ret,
                   why, advances, harvested, tableVars, runVars, cellVars, pureVars, sessVars>>

\* Lines 749-781: strategy 3, click the pager's Next link (its onclick asks
\* for the page after the one displayed); without such a link, return False
Strategy3 ==
    /\ pc = "s3"
    /\ IF HasNextLink(site, shown)
       THEN /\ pending' = shown + 1
            /\ tried' = Append(tried, 3)
            /\ pc' = "wait3"
            /\ UNCHANGED <<ret, why, advances>>
       ELSE ReturnFalse("no_link") /\ UNCHANGED <<pending, tried>>
    /\ UNCHANGED <<shown, page_no, before, shown_at_call, harvested, late,
                   tableVars, runVars, cellVars, pureVars, sessVars>>

\* Lines 783-790 and 801-807
Wait3Ok ==
    /\ pc = "wait3"
    /\ TextDiffers
    /\ ReturnTrue("strategy3")
    /\ UNCHANGED <<shown, pending, page_no, before, shown_at_call, tried,
                   harvested, late, tableVars, runVars, cellVars, pureVars, sessVars>>
Wait3Timeout ==
    /\ pc = "wait3"
    /\ TimedOut
    /\ pc' = "recheck"
    /\ UNCHANGED <<shown, pending, page_no, before, shown_at_call, tried, ret,
                   why, advances, harvested, tableVars, runVars, cellVars, pureVars, sessVars>>

\* Lines 791-799: after the timeout, wait for the table, read the indicator
\* again and compare it with before
Recheck3 ==
    /\ pc = "recheck"
    /\ IF norm_text(IndicatorText(site, shown)) = before
       THEN ReturnFalse("unchanged")
       ELSE ReturnTrue("recheck")
    /\ UNCHANGED <<shown, pending, page_no, before, shown_at_call, tried,
                   harvested, late, tableVars, runVars, cellVars, pureVars, sessVars>>

\* The site answers the request in flight: the browser shows the new page.
SiteDeliver ==
    /\ pending # 0
    /\ pc \notin {"done", "raised"}
    /\ shown' = Resolve(site, shown, pending)
    /\ pending' = 0
    /\ UNCHANGED <<pc, page_no, before, shown_at_call, tried, ret, why, advances,
                   harvested, late, tableVars, runVars, cellVars, pureVars, sessVars>>

\* harvest_result_pages is run once more, from the first page of the same
\* result list, over the tables the first run left.
Rerun ==
    /\ pc = "done"
    /\ run = 1
    /\ run' = 2
    /\ after_first' = [fall |-> fall_tables, winter |-> winter_tables,
                        pages |-> harvested]
    /\ shown' = 1 /\ pending' = 0 /\ pc' = "harvest" /\ page_no' = 0
    /\ total_rows' = 0 /\ filled' = 0
    /\ before' = <<>> /\ shown_at_call' = 0 /\ tried' = <<>> /\ ret' = "none"
    /\ why' = "none"
    /\ advances' = 0 /\ harvested' = <<>> /\ late' = FALSE
    /\ UNCHANGED <<fall_tables, winter_tables, site, catalog, pre, cellVars, pureVars, sessVars>>

\* ------------------------------------------------------------------------
\* put_cell on one table
\* ------------------------------------------------------------------------
CellRooms == {<<"5", "3", "-", "1", "0", "1">>, <<"6", "3", "P", "C", "-", "G">>}
CellPeriods == <<<<"1">>, <<"2">>>>
\* what a cell may hold before the first call
CellContents == {<<>>, <<" ">>, <<"Z", "9", ":", "P", "a", "s", "t">>, <<"Z", "9", ":", "P", "a", "s", "t", ";", " ", "A", "1", ":", "I", "n", "t", "r", "o">>, <<" ", "A", "1", ":", "I", "n", "t", "r", "o", " ">>}
\* the course codes and names a harvest may read
CellCodes == {<<"A", "1">>, <<"FWE", "FW5">>}
CellNames == {<<"I", "n", "t", "r", "o">>, <<"L", "a", "w", ";", "E", "t", "h", "i", "c", "s">>}
CellValues == {CellValue(norm_text(c), norm_text(n)) : c \in CellCodes, n \in CellNames}
\* the arguments tried: periods and rooms, some of them not in the table
CellArgPeriods == {1, 2, 3}
CellArgRooms == CellRooms \cup {<<"9", "9", "-", "9", "9", "9">>}
\* how many put_cell calls one table gets
MaxCalls == 2

\* put_cell(cell_df, period, room, value); cell_call lists the calls made
CellPut(period, room, value) ==
    /\ Len(cell_call) < MaxCalls
    /\ cell_df' = put_cell(cell_df, period, room, value).df
    /\ cell_raised' = put_cell(cell_df, period, room, value).raised
    /\ cell_prev' = cell_df
    /\ cell_call' = Append(cell_call, <<period, room, value>>)
    /\ UNCHANGED <<navVars, tableVars, runVars, pureVars, sessVars>>
\* ------------------------------------------------------------------------
\* The parsers called on their own
\* ------------------------------------------------------------------------
\* norm_room: a building, "-" and the rest of a room code, and other texts
RoomBuildings == {<<"5", "2">>, <<"5", "3">>, <<"6", "1">>, <<"6", "3">>, <<"5", "5", "S">>, <<"FW5", "FW3">>}
RoomRests == {<<"2", "0", "1">>, <<"1", "0", "1">>, <<"1", "0", "2">>, <<"1", "0", "4", "a">>, <<"2", "0", "1", "A">>, <<"3", "F", "-", "G">>, <<"3", "F", "-", "g">>, <<"B", "0", "4">>,
              <<"0", "3", "-", "0", "9">>, <<"3", "-", "9">>, <<"0", "2", "-", "0", "1", "-", "1">>, <<"2">>, <<"1", "2">>, <<"1", "2", "3", "4">>, <<"FW1", "FW0", "FW3", "kyou", "shitsu">>,
              <<"2", "0", "1", " ", "kyou", "shitsu">>}
RoomOthers == {<<>>, <<"mi", "tei">>, <<"kyou", "shitsu", "mi", "tei">>, <<"T", "B", "D">>, <<"t", "b", "d">>, <<" ", " ">>, <<"O", "n", "l", "i", "n", "e">>,
               <<"6", "3", "gou", "kan", "3", "kai", "matsu", "tan", "shitsu", "F", "RU", "CHOON", "MU">>, <<"6", "3", "gou", "kan", "matsu", "tan", "FWf">>, <<"6", "3", "P", "C", "-", "A">>, <<"6", "3", "P", "C", "-", "a">>,
               <<"0", "1", ":", "5", "3", "-", "2">>, <<"FW0", "FW1", "FW:", "FW5", "FW3", "-", "FW1", "FW0", "FW3", "kyou", "shitsu">>, <<"5", "3", "-", "1", "0", "1", "FW(", "TA_", "FW)">>, <<"5", "3", "-", "1", "0", "4", "(", "T", "A", ")">>,
               <<"0", "1", ":", "0", "2", ":", "5", "3", "-", "1">>}

NormRoomCall ==
    /\ fn = "none"
    /\ \/ \E b \in RoomBuildings, r \in RoomRests :
             /\ fn_arg' = b \o <<"-">> \o r
             /\ fn_case' = [kind |-> "code", building |-> b, rest |-> r]
       \/ \E x \in RoomOthers :
             /\ fn_arg' = x
             /\ fn_case' = [kind |-> "other", building |-> <<>>, rest |-> <<>>]
    /\ fn' = "norm_room"
    /\ fn_out' = norm_room(fn_arg')
    /\ UNCHANGED <<navVars, tableVars, runVars, cellVars, sessVars>>

\* norm_room called on what norm_room returned
NormRoomAgain ==
    /\ fn = "norm_room"
    /\ fn' = "norm_room_twice"
    /\ fn_case' = [kind |-> "twice", building |-> fn_case.building, rest |-> fn_out]
    /\ fn_out' = norm_room(fn_out)
    /\ UNCHANGED <<fn_arg, navVars, tableVars, runVars, cellVars, sessVars>>

\* parse_day_periods: a day token, then a range a-b or a list of digits
DayTokens == {[text |-> <<"getsu">>, day |-> "mon"], [text |-> <<"M", "o", "n", ".">>, day |-> "mon"],
              [text |-> <<"T", "u", "e", " ">>, day |-> "tue"], [text |-> <<"FW0", "FW2", "FW:", "moku">>, day |-> "thu"],
              [text |-> <<"do">>, day |-> "sat"]}
RangeSeps == {<<"-">>, <<"WAVE">>, <<" ", "t", "o", " ">>, <<"CHOON">>, <<" ", "ENDASH", " ">>}
ListSeps == {<<",">>, <<" ">>, <<",", " ">>}
PeriodSuffixes == {<<>>, <<"ji", "gen">>}
ListDigits == {1, 3, 5, 7}
\* the longest list of period digits tried
MaxDigits == 3
DayOthers == {<<"getsu">>, <<"mu", "SO", "NO", "TA_">>, <<"M", "o", "n", "4", "-", "5">>, <<"O", "n", " ", "d", "e", "m", "a", "n", "d">>, <<"getsu", "5", "gen">>, <<"O", "D", " ", "getsu", "3">>,
              <<"getsu", "3", "FW~", "5">>, <<"T", "h", "u", "r", ".", "2">>, <<"5", "ji", "gen">>, <<"getsu", "1", "2", "-", "3", "4">>, <<>>}

\* day/period texts by what they carry: a placeholder token, no day token,
\* no period digit in 1..7, or (plain) a day token followed by period digits
DayMarked == {[text |-> <<"mu", "SO", "NO", "TA_">>, kind |-> "placeholder", day |-> ""],
              [text |-> <<"0", "1", ":", "mu", "SO", "NO", "TA_">>, kind |-> "placeholder", day |-> ""],
              [text |-> <<"M", "o", "n", ".", "3", " ", "O", "n", " ", "d", "e", "m", "a", "n", "d">>, kind |-> "placeholder", day |-> "mon"],
              [text |-> <<"O", "D", " ", "ka", "2">>, kind |-> "placeholder", day |-> "tue"],
              [text |-> <<"5", "ji", "gen">>, kind |-> "no_day", day |-> ""],
              [text |-> <<"3", "-", "4">>, kind |-> "no_day", day |-> ""],
              [text |-> <<" ", " ">>, kind |-> "no_day", day |-> ""],
              [text |-> <<"getsu">>, kind |-> "no_digit", day |-> "mon"],
              [text |-> <<"F", "r", "i", ".">>, kind |-> "no_digit", day |-> "fri"],
              [text |-> <<"sui", "ji", "gen">>, kind |-> "no_digit", day |-> "wed"],
              [text |-> <<"getsu", "5", "gen">>, kind |-> "plain", day |-> "mon"],
              [text |-> <<"T", "u", "e", "s", ".", " ", "6">>, kind |-> "plain", day |-> "tue"],
              [text |-> <<"S", "a", "t", " ", "1">>, kind |-> "plain", day |-> "sat"],
              [text |-> <<"nichi", "FW7", "ji", "gen">>, kind |-> "plain", day |-> "sun"],
              [text |-> <<"0", "2", ":", "kin", " ", "4">>, kind |-> "plain", day |-> "fri"]}

RECURSIVE JoinDigits(_, _)
JoinDigits(ds, sep) ==
    IF ds = <<>> THEN <<>>
    ELSE IF Len(ds) = 1 THEN StrOf(ds[1])
    ELSE StrOf(ds[1]) \o sep \o JoinDigits(Tail(ds), sep)

ParseDayCall ==
    /\ fn = "none"
    /\ \/ \E d \in DayTokens, a \in 1..7, b \in 1..7, sep \in RangeSeps, suf \in PeriodSuffixes :
             /\ fn_arg' = d.text \o StrOf(a) \o sep \o StrOf(b) \o suf
             /\ fn_case' = [kind |-> "range", day |-> d.day, digits |-> <<a, b>>]
       \/ \E d \in DayTokens, n \in 1..MaxDigits, sep \in ListSeps, suf \in PeriodSuffixes :
             \E ds \in [1..n -> ListDigits] :
                /\ fn_arg' = d.text \o JoinDigits(ds, sep) \o suf
                /\ fn_case' = [kind |-> "list", day |-> d.day, digits |-> ds]
       \/ \E x \in DayOthers :
             /\ fn_arg' = x
             /\ fn_case' = [kind |-> "other", day |-> "", digits |-> <<>>]
       \/ \E x \in DayMarked :
             /\ fn_arg' = x.text
             /\ fn_case' = [kind |-> x.kind, day |-> x.day, digits |-> <<>>]
    /\ fn' = "parse_day_periods"
    /\ fn_out' = parse_day_periods(fn_arg')
    /\ UNCHANGED <<navVars, tableVars, runVars, cellVars, sessVars>>

\* pair_day_and_room: keyed day lines and keyed room lines; line i of a cell
\* carries the i-th value, its key written in one of the styles
DayLineVals == <<<<"getsu", "5", "ji", "gen">>, <<"ka", "3", "ji", "gen">>, <<"sui", "1", "ji", "gen">>, <<"moku", "2", "ji", "gen">>>>
RoomLineVals == <<<<"5", "3", "-", "1", "0", "1">>, <<"5", "3", "-", "1", "0", "2">>, <<"5", "3", "-", "1", "0", "3">>, <<"5", "3", "-", "1", "0", "4">>, <<"5", "3", "-", "1", "0", "5">>>>
KeyStyles == {"padded", "plain", "wide"}
KeyText(k, style) ==
    IF style = "padded" THEN <<"0">> \o StrOf(k) \o <<":">>
    ELSE IF style = "plain" THEN StrOf(k) \o <<":", " ">>
    ELSE <<"FW0">> \o FwStr(StrOf(k)) \o <<"FW:">>
KeyedLines(keys, style, vals) == [i \in 1..Len(keys) |-> KeyText(keys[i], style) \o vals[i]]
\* the most day lines and room lines of a cell tried
MaxDayLines == 2
MaxRoomLines == 3

\* lines of which some carry no key (key 0) or are blank (key -1)
MixedDayKeys == {-1, 0, 1, 2}
MixedRoomKeys == {-1, 0, 1}
LineText(k, val) ==
    IF k = -1 THEN <<" ", "FWSP">>
    ELSE IF k = 0 THEN val
    ELSE KeyText(k, "padded") \o val
MixedLines(keys, vals) == [i \in 1..Len(keys) |-> LineText(keys[i], vals[i])]

PairMixedCall ==
    /\ fn = "none"
    /\ \E nd \in 1..MaxDayLines, nr \in 1..MaxRoomLines :
          \E dk \in [1..nd -> MixedDayKeys], rk \in [1..nr -> MixedRoomKeys] :
             /\ \E i \in 1..nd : dk[i] <= 0
             /\ fn_arg' = <<MixedLines(dk, DayLineVals), MixedLines(rk, RoomLineVals)>>
             /\ fn_case' = [kind |-> "mixed", day_keys |-> dk, room_keys |-> rk]
    /\ fn' = "pair_day_and_room"
    /\ fn_out' = pair_day_and_room(fn_arg'[1], fn_arg'[2])
    /\ UNCHANGED <<navVars, tableVars, runVars, cellVars, sessVars>>

PairCall ==
    /\ fn = "none"
    /\ \E nd \in 1..MaxDayLines, nr \in 1..MaxRoomLines, ds \in KeyStyles, rs \in KeyStyles :
          \E dk \in [1..nd -> 1..2], rk \in [1..nr -> 1..3] :
             /\ fn_arg' = <<KeyedLines(dk, ds, DayLineVals), KeyedLines(rk, rs, RoomLineVals)>>
             /\ fn_case' = [kind |-> "keyed", day_keys |-> dk, room_keys |-> rk]
    /\ fn' = "pair_day_and_room"
    /\ fn_out' = pair_day_and_room(fn_arg'[1], fn_arg'[2])
    /\ UNCHANGED <<navVars, tableVars, runVars, cellVars, sessVars>>

\* targets_from_term: term texts and what each denotes
TermCases == {[text |-> <<"aki", "gaku", "ki">>, kind |-> "fall_semester"],
              [text |-> <<"f", "a", "l", "l", " ", "s", "e", "m", "e", "s", "t", "e", "r">>, kind |-> "fall_semester"],
              [text |-> <<"F", "a", "l", "l", " ", "S", "e", "m", "e", "s", "t", "e", "r">>, kind |-> "fall_semester"],
              [text |-> <<"aki", "KU", "XO", "CHOON", "TA", "CHOON">>, kind |-> "fall_quarter"],
              [text |-> <<"f", "a", "l", "l", " ", "q", "u", "a", "r", "t", "e", "r">>, kind |-> "fall_quarter"],
              [text |-> <<"F", "a", "l", "l", " ", "Q", "u", "a", "r", "t", "e", "r">>, kind |-> "fall_quarter"],
              [text |-> <<"fuyu", "KU", "XO", "CHOON", "TA", "CHOON">>, kind |-> "winter_quarter"],
              [text |-> <<"w", "i", "n", "t", "e", "r", " ", "q", "u", "a", "r", "t", "e", "r">>, kind |-> "winter_quarter"],
              [text |-> <<"FWW", "FWi", "FWn", "FWt", "FWe", "FWr", " ", "Q", "u", "a", "r", "t", "e", "r">>, kind |-> "winter_quarter"],
              [text |-> <<"s", "p", "r", "i", "n", "g", " ", "s", "e", "m", "e", "s", "t", "e", "r">>, kind |-> "other"],
              [text |-> <<"haru", "gaku", "ki">>, kind |-> "other"],
              [text |-> <<"haru", "KU", "XO", "CHOON", "TA", "CHOON">>, kind |-> "other"],
              [text |-> <<"f", "u", "l", "l", " ", "y", "e", "a", "r">>, kind |-> "other"],
              [text |-> <<>>, kind |-> "other"]}

TargetsCall ==
    /\ fn = "none"
    /\ \E c \in TermCases :
          /\ fn_arg' = c.text
          /\ fn_case' = [kind |-> c.kind]
    /\ fn' = "targets_from_term"
    /\ fn_out' = targets_from_term(fn_arg')
    /\ UNCHANGED <<navVars, tableVars, runVars, cellVars, sessVars>>

\* ------------------------------------------------------------------------
\* scrape_and_fill: the session around the harvest
\* ------------------------------------------------------------------------
\* What the search page offers.  goto: the page loads.  label, text, option:
\* the three ways of choosing the Fall/Winter term before the script
\* fallback ("none": no such control, "works": it is found and takes the
\* click or the selection, "raises": it is found and the call on it raises).
\* js: what the script fallback returns.  button: the search control.
\* table: the result table appears within the timeout.
TermWays == {"none", "works", "raises"}
Ui == {u \in [goto : BOOLEAN, label : TermWays, text : TermWays, option : TermWays,
              js : {"found", "absent", "raises"},
              button : {"submit", "search", "none", "submit_raises"},
              table : BOOLEAN] :
         ~u.goto => /\ u.label = "works" /\ u.text = "none" /\ u.option = "none"
                    /\ u.js = "absent" /\ u.button = "submit" /\ u.table}

\* the term taken as selected whatever the page offers (a mutant of
\* select_fall_winter_term)
select_term_unchecked(u) == "selected"
\* select_fall_winter_term: "selected" when it returns, "raised" otherwise
select_fall_winter_term(u) ==
    IF u.label = "works" THEN "selected"
    ELSE IF u.text = "works" THEN "selected"
    ELSE IF u.option = "works" THEN "selected"
    ELSE IF u.js = "found" THEN "selected"
    ELSE "raised"

\* open_fall_winter_listing up to the search: load the page, pass the
\* language gate, select the term
OpenListing ==
    /\ phase = "start"
    /\ phase' = IF ui.goto /\ select_fall_winter_term(ui) = "selected"
                THEN "term_selected" ELSE "aborted"
    /\ UNCHANGED <<ui, disk, saves, searches, navVars, tableVars, runVars, cellVars, pureVars>>

\* lines 569-582: click btnSubmit, else the Search button, else raise
SubmitSearch ==
    /\ phase = "term_selected"
    /\ IF ui.button \in {"submit", "search"}
       THEN phase' = "submitted" /\ searches' = searches + 1
       ELSE phase' = "aborted" /\ UNCHANGED searches
    /\ UNCHANGED <<ui, disk, saves, navVars, tableVars, runVars, cellVars, pureVars>>

\* lines 584-614 and 995: wait for the result table; with it the listing is
\* open and harvest_result_pages is entered
WaitResults ==
    /\ phase = "submitted"
    /\ IF ui.table
       THEN phase' = "harvest" /\ pc' = "harvest"
       ELSE phase' = "aborted" /\ UNCHANGED pc
    /\ UNCHANGED <<shown, pending, page_no, before, shown_at_call, tried, ret, why,
                   advances, harvested, late>>
    /\ UNCHANGED <<ui, disk, saves, searches, tableVars, runVars, cellVars, pureVars>>

\* page.content() raises at the top of a pass of the harvest loop (the
\* browser or the page is gone): the exception leaves scrape_and_fill
\* through the finally block
PageContentFails ==
    /\ phase = "harvest"
    /\ pc = "harvest"
    /\ pc' = "raised"
    /\ phase' = "aborted"
    /\ UNCHANGED <<shown, pending, page_no, before, shown_at_call, tried, ret, why,
                   advances, harvested, late>>
    /\ UNCHANGED <<ui, disk, saves, searches, tableVars, runVars, cellVars, pureVars>>

\* save_week_csvs as a run that skips the with-block's exceptions would
\* reach it (a mutant of RunEnded)
RunEndedOrAborted == phase \in {"harvest", "aborted"} /\ pc \in {"done", "raised"}
\* line 1010 is reached: harvest_result_pages has returned
RunEnded == phase = "harvest" /\ pc = "done"

\* save_week_csvs(base_dir, "period_room_fall", fall_tables)
SaveFall ==
    /\ RunEnded
    /\ disk' = [disk EXCEPT !.fall = fall_tables]
    /\ saves' = Append(saves, "fall")
    /\ phase' = "saved_fall"
    /\ UNCHANGED <<ui, searches, navVars, tableVars, runVars, cellVars, pureVars>>

\* save_week_csvs(base_dir, "period_room_winter", winter_tables)
SaveWinter ==
    /\ phase = "saved_fall"
    /\ disk' = [disk EXCEPT !.winter = winter_tables]
    /\ saves' = Append(saves, "winter")
    /\ phase' = "saved"
    /\ UNCHANGED <<ui, searches, navVars, tableVars, runVars, cellVars, pureVars>>
\* ------------------------------------------------------------------------
\* Specifications
\* ------------------------------------------------------------------------
NoCell ==
    /\ cell_df = EmptyDf /\ cell_prev = EmptyDf
    /\ cell_call = <<>> /\ cell_raised = FALSE

StartOfTables ==
    /\ total_rows = 0 /\ filled = 0
    /\ fall_tables = PreTables(pre).fall
    /\ winter_tables = PreTables(pre).winter
    /\ run = 1
    /\ after_first = [fall |-> PreTables(pre).fall, winter |-> PreTables(pre).winter,
                       pages |-> <<>>]

\* no function has been called on its own
NoPure == fn = "none" /\ fn_case = <<>> /\ fn_arg = <<>> /\ fn_out = <<>>

\* harvest_result_pages is called directly: no session, the CSV files as read
NoSession ==
    /\ phase = "none"
    /\ ui = CHOOSE u \in Ui : TRUE
    /\ disk = [fall |-> PreTables(pre).fall, winter |-> PreTables(pre).winter]
    /\ saves = <<>> /\ searches = 0

StartOfNav(at) ==
    /\ shown = 1 /\ pending = 0 /\ pc = at /\ page_no = 0
    /\ before = <<>> /\ shown_at_call = 0 /\ tried = <<>> /\ ret = "none"
    /\ why = "none"
    /\ advances = 0 /\ harvested = <<>> /\ late = FALSE

StartOfRun == StartOfNav("harvest") /\ StartOfTables

\* result lists of up to MaxRows rows drawn from RowPool, repeats allowed,
\* listed in the pool's order
MaxRows == 2
PoolOrdered(n) == {f \in [1..n -> DOMAIN RowPool] : \A i \in 1..(n - 1) : f[i] <= f[i + 1]}
Catalogs == UNION {{[i \in 1..n |-> RowPool[f[i]]] : f \in PoolOrdered(n)} : n \in 1..MaxRows}

\* Spec: any rows, on a site whose indicator is plain and whose pages carry
\* all three pager mechanisms
Init ==
    /\ catalog \in Catalogs
    /\ site \in {s \in Sites : /\ s.total = Len(catalog) /\ s.fmt = "plain"
                               /\ s.fn /\ s.form /\ s.link
                               /\ s.reach = NPages(s) /\ s.beyond = "stay"}
    /\ pre \in PreSel
    /\ StartOfRun
    /\ NoCell
    /\ NoPure
    /\ NoSession

\* SpecNav: any site, over a fixed list of rows
NavRow(i) == IF i % 2 = 1 THEN RowFallMon5 ELSE RowWinterTue2
InitNav ==
    /\ site \in Sites
    /\ catalog = [i \in 1..site.total |-> NavRow(i)]
    /\ pre = "empty"
    /\ StartOfRun
    /\ NoCell
    /\ NoPure
    /\ NoSession

\* SpecCell: put_cell calls on one table
InitCell ==
    /\ cell_df \in {[c \in CellRooms \cup {PeriodCol} |->
                       IF c = PeriodCol THEN CellPeriods
                       ELSE [i \in DOMAIN CellPeriods |-> IF i = 1 THEN x ELSE <<>>]] :
                    x \in CellContents}
    /\ cell_prev = cell_df
    /\ cell_call = <<>>
    /\ cell_raised = FALSE
    /\ site = CHOOSE s \in Sites : TRUE
    /\ catalog = <<>>
    /\ pre = "empty"
    /\ StartOfNav("idle")
    /\ StartOfTables
    /\ NoPure
    /\ NoSession

Next ==
    \/ HarvestPage
    \/ GoStart
    \/ Wait1Ok
    \/ Wait1Timeout
    \/ Strategy2
    \/ Wait2Ok
    \/ Wait2Timeout
    \/ Strategy3
    \/ Wait3Ok
    \/ Wait3Timeout
    \/ Recheck3
    \/ SiteDeliver
    \/ Rerun

\* norm_text: an argument built from characters whose half-width form is
\* known (zen: the character, han: what it stands for), between paddings
NormChars == {[zen |-> "FW5", han |-> "5"], [zen |-> "FWA", han |-> "A"],
              [zen |-> "FWz", han |-> "z"], [zen |-> "FW-", han |-> "-"],
              [zen |-> "MINUS", han |-> "-"], [zen |-> "CHOON", han |-> "-"],
              [zen |-> "HBAR", han |-> "-"], [zen |-> "HYPHEN", han |-> "-"],
              [zen |-> "FWSP", han |-> " "], [zen |-> "a", han |-> "a"],
              [zen |-> "getsu", han |-> "getsu"], [zen |-> "ENDASH", han |-> "ENDASH"]}
TextPads == {<<>>, <<"FWSP", " ">>}
\* the longest core of a norm_text argument
MaxText == 3
NormTextCall ==
    /\ fn = "none"
    /\ \/ \E n \in 0..MaxText, l \in TextPads, r \in TextPads :
             \E core \in [1..n -> NormChars] :
                /\ n > 0 => core[1].han # " " /\ core[n].han # " "
                /\ fn_arg' = l \o [i \in 1..n |-> core[i].zen] \o r
                /\ fn_case' = [kind |-> "text", han |-> [i \in 1..n |-> core[i].han]]
                /\ fn_out' = norm_text_of([none |-> FALSE, text |-> fn_arg'])
       \/ /\ fn_arg' = <<>>
          /\ fn_case' = [kind |-> "none", han |-> <<>>]
          /\ fn_out' = norm_text_of([none |-> TRUE])
    /\ fn' = "norm_text"
    /\ UNCHANGED <<navVars, tableVars, runVars, cellVars, sessVars>>

\* norm_text called on what norm_text returned
NormTextAgain ==
    /\ fn = "norm_text"
    /\ fn' = "norm_text_twice"
    /\ fn_out' = norm_text_of([none |-> FALSE, text |-> fn_out])
    /\ UNCHANGED <<fn_arg, fn_case, navVars, tableVars, runVars, cellVars, sessVars>>

\* header rows, and for each the column the header names for every field by
\* its patterns, the legacy index where it names none (expect)
HeaderCases ==
    {[kind |-> "standard",
      cells |-> <<<<"Y", "e", "a", "r">>, <<"C", "o", "u", "r", "s", "e", " ", "C", "o", "d", "e">>, <<"C", "o", "u", "r", "s", "e", " ", "T", "i", "t", "l", "e">>, <<"I", "n", "s", "t", "r", "u", "c", "t", "o", "r">>, <<"S", "c", "h", "o", "o", "l">>, <<"T", "e", "r", "m">>, <<"D", "a", "y", "/", "P", "e", "r", "i", "o", "d">>, <<"C", "l", "a", "s", "s", "r", "o", "o", "m">>, <<"C", "a", "m", "p", "u", "s">>>>,
      expect |-> [code |-> 1, name |-> 2, term |-> 5, day |-> 6, room |-> 7]],
     [kind |-> "reordered",
      cells |-> <<<<"Y", "e", "a", "r">>, <<"D", "e", "s", "c", "r", "i", "p", "t", "i", "o", "n">>, <<"C", "o", "u", "r", "s", "e", " ", "C", "o", "d", "e">>, <<"C", "o", "u", "r", "s", "e", " ", "T", "i", "t", "l", "e">>, <<"T", "e", "r", "m">>, <<"D", "a", "y", "/", "P", "e", "r", "i", "o", "d">>, <<"C", "l", "a", "s", "s", "r", "o", "o", "m">>>>,
      expect |-> [code |-> 2, name |-> 3, term |-> 4, day |-> 5, room |-> 6]],
     [kind |-> "none",
      cells |-> <<>>,
      expect |-> [code |-> 1, name |-> 2, term |-> 5, day |-> 6, room |-> 7]],
     [kind |-> "japanese",
      cells |-> <<<<"gaku", "ki">>, <<"you", "nichi">>, <<"ka_", "moku_", "KO", "CHOON", "DO">>, <<"ka_", "moku_", "mei">>, <<"kyou", "shitsu">>>>,
      expect |-> [code |-> 2, name |-> 3, term |-> 0, day |-> 1, room |-> 4]],
     [kind |-> "no_code",
      cells |-> <<<<"Y", "e", "a", "r">>, <<"C", "o", "u", "r", "s", "e", " ", "T", "i", "t", "l", "e">>, <<"I", "n", "s", "t", "r", "u", "c", "t", "o", "r">>, <<"S", "c", "h", "o", "o", "l">>, <<"C", "a", "m", "p", "u", "s">>, <<"T", "e", "r", "m">>, <<"D", "a", "y", "/", "P", "e", "r", "i", "o", "d">>, <<"C", "l", "a", "s", "s", "r", "o", "o", "m">>>>,
      expect |-> [code |-> 1, name |-> 1, term |-> 5, day |-> 6, room |-> 7]],
     [kind |-> "styled",
      cells |-> <<<<"FWY", "FWE", "FWA", "FWR">>, <<"C", "O", "U", "R", "S", "E", " ", " ", "C", "O", "D", "E">>, <<"T", "i", "t", "l", "e">>, <<"I", "n", "s", "t", "r", "u", "c", "t", "o", "r">>, <<"S", "c", "h", "o", "o", "l">>, <<"F", "a", "l", "l", " ", "S", "e", "m", "e", "s", "t", "e", "r">>, <<"D", "a", "y", " ", "a", "n", "d", " ", "P", "e", "r", "i", "o", "d">>, <<"C", "l", "a", "s", "s", " ", "R", "o", "o", "m">>>>,
      expect |-> [code |-> 1, name |-> 2, term |-> 5, day |-> 6, room |-> 7]],
     [kind |-> "near",
      cells |-> <<<<"Y", "e", "a", "r">>, <<"B", "a", "r", "c", "o", "d", "e">>, <<"C", "o", "u", "r", "s", "e", " ", "C", "o", "d", "e">>, <<"C", "o", "u", "r", "s", "e", " ", "n", "a", "m", "e">>, <<"T", "e", "r", "m">>, <<"W", "e", "e", "k", "d", "a", "y">>, <<"D", "a", "y">>, <<"R", "o", "o", "m">>>>,
      expect |-> [code |-> 2, name |-> 3, term |-> 4, day |-> 6, room |-> 7]]}
\* the most cells a data row has
MaxCells == 9
\* the text of cell j of a data row (0-based): every cell has its own
DataCell(j) == <<<<"c">> \o StrOf(j)>>
DataRow(n) == [i \in 1..n |-> DataCell(i - 1)]

\* one <tr> of n cells read under a header row
ReadRowCall ==
    /\ fn = "none"
    /\ \E h \in HeaderCases, n \in 0..MaxCells :
          /\ fn_arg' = <<h.cells, DataRow(n)>>
          /\ fn_case' = [kind |-> h.kind, expect |-> h.expect, cells |-> n]
    /\ fn' = "read_row"
    /\ fn_out' = ReadRow(fn_arg'[1], fn_arg'[2])
    /\ UNCHANGED <<navVars, tableVars, runVars, cellVars, sessVars>>

\* SpecPure: one call of one of the parsers
InitPure ==
    /\ site = CHOOSE s \in Sites : TRUE
    /\ catalog = <<>>
    /\ pre = "empty"
    /\ StartOfNav("idle")
    /\ StartOfTables
    /\ NoCell
    /\ NoPure
    /\ NoSession

\* SpecRun: scrape_and_fill on a two-page result list; the pages carry one
\* pager mechanism and all are served, or all three and none is served
RunSites == {s \in Sites : /\ s.total = 2 /\ s.per = 1 /\ s.fmt = "plain" /\ s.beyond = "stay"
                            /\ \/ s.reach = 2 /\ Cardinality({m \in {"fn", "form", "link"} : s[m]}) = 1
                               \/ s.reach = 1 /\ s.fn /\ s.form /\ s.link}
InitRun ==
    /\ site \in RunSites
    /\ catalog = <<RowFallMon5, RowWinterTue2>>
    /\ pre \in PreSel
    /\ StartOfNav("idle")
    /\ StartOfTables
    /\ NoCell
    /\ NoPure
    /\ phase = "start"
    /\ ui \in Ui
    /\ disk = [fall |-> PreTables(pre).fall, winter |-> PreTables(pre).winter]
    /\ saves = <<>> /\ searches = 0

NextCell ==
    \E period \in CellArgPeriods, room \in CellArgRooms, value \in CellValues :
        CellPut(period, room, value)

NextPure ==
    \/ NormTextCall
    \/ NormTextAgain
    \/ NormRoomCall
    \/ NormRoomAgain
    \/ ParseDayCall
    \/ PairCall
    \/ PairMixedCall
    \/ ReadRowCall
    \/ TargetsCall

NextRun ==
    \/ OpenListing
    \/ SubmitSearch
    \/ WaitResults
    \/ HarvestPage
    \/ PageContentFails
    \/ GoStart
    \/ Wait1Ok
    \/ Wait1Timeout
    \/ Strategy2
    \/ Wait2Ok
    \/ Wait2Timeout
    \/ Strategy3
    \/ Wait3Ok
    \/ Wait3Timeout
    \/ Recheck3
    \/ SiteDeliver
    \/ SaveFall
    \/ SaveWinter

Spec == Init /\ [][Next]_vars
SpecNav == InitNav /\ [][Next]_vars
SpecCell == InitCell /\ [][NextCell]_vars
SpecPure == InitPure /\ [][NextPure]_vars
SpecRun == InitRun /\ [][NextRun]_vars
\* ------------------------------------------------------------------------
\* Properties
\* ------------------------------------------------------------------------
\* the last put_cell call made on the table, and the cell it addressed
LastCall == cell_call[Len(cell_call)]
CallInTable(call, df) == call[2] \in DOMAIN df /\ call[1] \in Range(PeriodInts(df))
CellAt(df, call) == df[call[2]][RowOf(df, call[1])]

\* C1: put_cell is idempotent: when put_cell(df, period, room, value) is
\* called twice in succession with a period and a room of the table, the
\* cell after the second call is the cell after the first call.
C1_PutCellIdempotent ==
    (/\ Len(cell_call) >= 2
     /\ cell_call[Len(cell_call) - 1] = LastCall
     /\ CallInTable(LastCall, cell_df))
        => CellAt(cell_df, LastCall) = CellAt(cell_prev, LastCall)

\* C6: put_cell with a room that is no column of the table, or a period
\* that is no value of its period column, returns without raising and leaves
\* the whole table as it was.
C6_UnknownTargetIsNoOp ==
    (cell_call # <<>> /\ ~CallInTable(LastCall, cell_prev))
        => ~cell_raised /\ cell_df = cell_prev
\* a call with a known room and an unknown period has been made on a table
\* holding text, and one with an unknown room before it
C6_Witness ==
    /\ Len(cell_call) = 2
    /\ cell_call[1][2] \notin DOMAIN cell_prev
    /\ LastCall[2] \in DOMAIN cell_prev
    /\ LastCall[1] \notin Range(PeriodInts(cell_prev))
    /\ \E c \in CellRooms : cell_df[c][1] # <<>>

\* the tables of a target, and the cells that differ between two weeks
Tables(which) == IF which = "fall" THEN fall_tables ELSE winter_tables
Cells == {"fall", "winter"} \X Range(DAYS) \X TableRooms \X DOMAIN TablePeriods
CellNow(c) == Tables(c[1])[c[2]][c[3]][c[4]]
CellPre(c) == PreTables(pre)[c[1]][c[2]][c[3]][c[4]]
\* the cell of a target's table at a day, a period and a room
CellOf(which, day, period, room) == <<which, day, room, RowOf(EmptyDf, period)>>
HasEntry(c, value) == value \in CellVals(CellNow(c))

\* C10: every cell a harvest modifies lies in the table of a weekday, in a
\* row of a period in 1..6 and in a column of a roster room; the tables stay
\* those of the five weekdays, and a result list holding only rows on
\* Saturday, in period 7 or in rooms outside the roster changes no cell.
C10_WritesStayInBounds ==
    /\ DOMAIN fall_tables = Range(DAYS) /\ DOMAIN winter_tables = Range(DAYS)
    /\ \A c \in Cells :
          CellNow(c) # CellPre(c)
             => /\ c[2] \in {"mon", "tue", "wed", "thu", "fri"}
                /\ IntOf(TablePeriods[c[4]]) \in 1..6
                /\ c[3] \in room_set
    /\ Range(catalog) \subseteq {RowLateAndSat, RowOffRoster}
          => \A c \in Cells : CellNow(c) = CellPre(c)
\* a harvest over a row that fills a cell and the row with the period-7 and
\* Saturday slots has ended
C10_Witness ==
    /\ pc = "done" /\ run = 1
    /\ catalog = <<RowFallMon5, RowLateAndSat>>
    /\ total_rows = 2
    /\ \E c \in Cells : CellNow(c) # CellPre(c)

\* the end-to-end scenario: one fall semester course on page 1, one winter
\* quarter course on page 2, both pages harvested once, in order
C4_Scenario ==
    /\ catalog = <<RowFallMon5, RowWinterTue2>>
    /\ site.per = 1
    /\ run = 1 /\ pc = "done"
    /\ harvested = <<1, 2>>
C4_FallCell == CellOf("fall", "mon", 5, <<"5", "3", "-", "1", "0", "1">>)
C4_WinterCell == CellOf("winter", "tue", 2, <<"6", "3", "P", "C", "-", "G">>)
C4_FallCourseInWinter == CellOf("winter", "mon", 5, <<"5", "3", "-", "1", "0", "1">>)

\* C4 as stated: after the full harvest the fall Monday period 5 cell of
\* 53-101 holds the first course, the winter Tuesday period 2 cell of 63PC-G
\* holds the second, and every other cell has its pre-run value.
C4_EndToEndAsStated ==
    C4_Scenario
        => /\ HasEntry(C4_FallCell, <<"A", "1", ":", "I", "n", "t", "r", "o">>)
           /\ HasEntry(C4_WinterCell, <<"B", "2", ":", "L", "a", "b">>)
           /\ \A c \in Cells \ {C4_FallCell, C4_WinterCell} : CellNow(c) = CellPre(c)

\* C4 amended: as stated, and the fall semester course is also entered in
\* the winter Monday period 5 cell of 53-101; every cell but these three has
\* its pre-run value.
C4_EndToEnd ==
    C4_Scenario
        => /\ HasEntry(C4_FallCell, <<"A", "1", ":", "I", "n", "t", "r", "o">>)
           /\ HasEntry(C4_WinterCell, <<"B", "2", ":", "L", "a", "b">>)
           /\ HasEntry(C4_FallCourseInWinter, <<"A", "1", ":", "I", "n", "t", "r", "o">>)
           /\ \A c \in Cells \ {C4_FallCell, C4_WinterCell, C4_FallCourseInWinter} :
                 CellNow(c) = CellPre(c)
\* the scenario has run over tables that already held entries
C4_Witness == C4_Scenario /\ pre = "filled" /\ filled = 3

\* C5: a second harvest over the same pages, on the tables the first one
\* left, leaves every cell of the fall and winter tables as the first left it.
C5_RerunIdempotent ==
    (run = 2 /\ pc = "done" /\ harvested = after_first.pages)
        => fall_tables = after_first.fall /\ winter_tables = after_first.winter

\* the counters and tables that harvesting the pages listed, in order, from
\* the tables the run started on gives
RECURSIVE ResultsOf(_, _, _)
ResultsOf(acc, pages, i) ==
    IF i > Len(pages) THEN acc
    ELSE IF pages[i] = 0 THEN ResultsOf(acc, pages, i + 1)
    ELSE ResultsOf(HarvestRows(acc, PageRows(site, catalog, pages[i]), 1), pages, i + 1)
ResultsKept ==
    [fall |-> fall_tables, winter |-> winter_tables, total_rows |-> total_rows,
     filled |-> filled, raised |-> FALSE]
        = ResultsOf([fall |-> after_first.fall, winter |-> after_first.winter,
                     total_rows |-> 0, filled |-> 0, raised |-> FALSE], harvested, 1)

\* C7: when no strategy is available or none changes the indicator,
\* go_to_next_page returns False, nothing is raised, the loop has ended, and
\* the row count, the fill count and the tables are those of the pages
\* harvested so far.
C7_FailedAdvanceKeepsResults ==
    /\ pc # "raised"
    /\ (ret = "false" /\ why \in {"no_link", "unchanged"})
          => pc = "done" /\ ResultsKept
\* all three strategies were tried on a page with rows and the indicator
\* did not change
C7_Witness ==
    /\ pc = "done" /\ ret = "false" /\ why = "unchanged"
    /\ tried = <<1, 2, 3>>
    /\ total_rows >= 1 /\ filled >= 1

\* C8: go_to_next_page returns True only if the indicator the page displays
\* at the return differs from the one it displayed when the call began.
C8_TrueOnlyIfIndicatorChanged ==
    [][ret' = "true" /\ advances' = advances + 1
          => IndicatorText(site, shown') # IndicatorText(site, shown_at_call')]_vars

\* the indicator read at the start of the call shows the last page: its
\* range end is its total
OnLastPage ==
    /\ parse_range_indicator(before) # <<>>
    /\ parse_range_indicator(before)[2] = parse_range_indicator(before)[3]

\* C9: a call of go_to_next_page on the last page invokes no pagination
\* function, submits no form and clicks no pager control, and returns False.
C9_LastPageStops ==
    OnLastPage => tried = <<>> /\ pc \notin {"wait1", "wait2", "wait3", "recheck"}

\* the site serves every page 1..N when asked, its indicator is written as
\* the program expects, its pages carry a pager mechanism, and no wait of the
\* run gave up on a navigation that then arrived
HonoursNavigation ==
    /\ site.reach = NPages(site)
    /\ site.fmt = "plain"
    /\ site.fn \/ site.form \/ site.link
    /\ ~late

\* C2: on a site that honours navigation to pages 1..N a harvest harvests
\* exactly N pages: go_to_next_page has returned True exactly N-1 times when
\* the loop has ended.
C2_HarvestsExactlyNPages ==
    (pc = "done" /\ HonoursNavigation)
        => advances = NPages(site) - 1

\* no navigation request changes what the site displays
Frozen == \A t \in 1..(MaxTotal + 1) : Resolve(site, 1, t) = 1

\* C3: once the indicator no longer changes in response to navigation,
\* go_to_next_page returns False and the page displayed is not harvested
\* again.
C3_FrozenIndicatorStops ==
    Frozen => advances = 0 /\ Len(harvested) <= 1

\* the course code of a cell entry: its text up to the first ":"
EntryCode(e) ==
    IF \E i \in DOMAIN e : e[i] = ":"
    THEN Take(e, FirstOf({i \in DOMAIN e : e[i] = ":"}) - 1)
    ELSE e
\* the entries of a cell, in order: its text split on ";", each piece
\* stripped, the empty ones dropped
IsEntry(e) == e # <<>>
CellEntries(cur) == SelectSeq([i \in DOMAIN SplitOn(cur, ";") |-> Strip(SplitOn(cur, ";")[i])], IsEntry)
NoRepeat(s) == \A i, j \in DOMAIN s : i # j => s[i] # s[j]

\* C11: from tables without a repeated entry, every cell of every table
\* holds at most one entry for any course code after the rows harvested.
C11_OneEntryPerCourse ==
    \A c \in Cells :
        NoRepeat([i \in DOMAIN CellEntries(CellNow(c)) |-> EntryCode(CellEntries(CellNow(c))[i])])

\* the rows that are skipped whole: too few cells, or every slot unparseable,
\* unresolved or outside the roster
IsSkippedRow(r) == r \in {RowShort, RowOffRoster}
IsKeptRow(r) == ~IsSkippedRow(r)
\* the run has harvested every page once, in order, and has ended
HarvestComplete ==
    /\ pc = "done" /\ run = 1
    /\ harvested = [i \in 1..NPages(site) |-> i]
WithoutSkipped ==
    HarvestRows([fall |-> PreTables(pre).fall, winter |-> PreTables(pre).winter,
                 total_rows |-> 0, filled |-> 0, raised |-> FALSE],
                SelectSeq(catalog, IsKeptRow), 1)
C12_GoodSlot == CellOf("fall", "thu", 3, <<"6", "3", "P", "C", "-", "G">>)

\* C12: a row with too few cells, an unparseable slot, an unresolved room or
\* a room outside the roster changes no table and raises nothing: the tables
\* and the fill count of a complete harvest are those of the result list
\* without such rows, and the good slot of a row is filled although the slot
\* before it is unparseable.
C12_BadRowsAreSkipped ==
    /\ pc # "raised"
    /\ HarvestComplete
          => /\ fall_tables = WithoutSkipped.fall
             /\ winter_tables = WithoutSkipped.winter
             /\ filled = WithoutSkipped.filled
             /\ RowMixed \in Range(catalog)
                   => /\ HasEntry(C12_GoodSlot, <<"M", "9", ":", "M", "i", "x">>)
                      /\ \A c \in Cells \ {C12_GoodSlot} :
                            HasEntry(c, <<"M", "9", ":", "M", "i", "x">>) = (<<"M", "9", ":", "M", "i", "x">> \in CellVals(CellPre(c)))
\* a list of the row with three bad slots and the row with a bad and a good
\* slot has been harvested
C12_Witness ==
    /\ HarvestComplete
    /\ catalog = <<RowOffRoster, RowMixed>>
    /\ total_rows = 2 /\ filled = 1

\* no way of selecting the term works / there is no search control that
\* takes the click / the result table does not appear
TermNotSelectable ==
    ui.label # "works" /\ ui.text # "works" /\ ui.option # "works" /\ ui.js # "found"
SearchNotFound == ui.button \in {"none", "submit_raises"}
TableNeverAppears == ~ui.table
HarvestNotEntered == pc = "idle" /\ page_no = 0 /\ harvested = <<>> /\ total_rows = 0

\* C13: when the term cannot be selected, the search control is not found or
\* the result table does not appear, the run aborts: the search is submitted
\* at most once, never after a failed term selection, and
\* harvest_result_pages is never entered.
C13_SetupFailureAborts ==
    /\ TermNotSelectable
          => phase \in {"start", "aborted"} /\ searches = 0 /\ HarvestNotEntered
    /\ SearchNotFound
          => phase \in {"start", "term_selected", "aborted"} /\ searches = 0
             /\ HarvestNotEntered
    /\ TableNeverAppears
          => phase \in {"start", "term_selected", "submitted", "aborted"}
             /\ searches <= 1 /\ HarvestNotEntered
    /\ phase \in {"harvest", "saved_fall", "saved"}
          => ~TermNotSelectable /\ ~SearchNotFound /\ ~TableNeverAppears /\ searches = 1
\* the term was selected by the script fallback, the search submitted once,
\* and the run aborted for want of the result table
C13_Witness ==
    /\ phase = "aborted" /\ ~ui.table /\ searches = 1
    /\ ui.label = "raises" /\ ui.js = "found"

DiskAsRead == disk = [fall |-> PreTables(pre).fall, winter |-> PreTables(pre).winter]

\* C14: the CSV files are written only after the harvest loop has ended,
\* the fall ones once and then the winter ones once; until then, and when
\* the run aborts, every file holds its pre-run content.
C14_SavedOnlyAtRunEnd ==
    /\ saves \in {<<>>, <<"fall">>, <<"fall", "winter">>}
    /\ saves # <<>> => pc = "done" /\ phase \in {"saved_fall", "saved"}
    /\ phase \notin {"saved_fall", "saved"} => saves = <<>> /\ DiskAsRead
    /\ phase = "saved" => /\ saves = <<"fall", "winter">>
                          /\ disk = [fall |-> fall_tables, winter |-> winter_tables]
\* the run aborted in the harvest loop after cells were filled in memory
C14_Witness ==
    /\ phase = "aborted" /\ pc = "raised"
    /\ filled >= 1 /\ fall_tables # PreTables(pre).fall

\* the targets a term of each kind is to be written to
TargetsOfKind(kind) ==
    IF kind = "fall_semester" THEN <<"fall", "winter">>
    ELSE IF kind = "fall_quarter" THEN <<"fall">>
    ELSE IF kind = "winter_quarter" THEN <<"winter">>
    ELSE <<>>

\* C15: a fall semester term is attributed to the fall and the winter table,
\* a fall quarter term to the fall table only, a winter quarter term to the
\* winter table only, any other term to neither.
C15_TermAttribution ==
    fn = "targets_from_term" => fn_out = TargetsOfKind(fn_case.kind)

\* the room line that the day line i of a keyed cell is to be paired with:
\* the earliest line with the same key that no earlier day line took (0: none)
RECURSIVE KeyedRoom(_, _, _)
KeyedRoom(dk, rk, i) ==
    LET taken == {KeyedRoom(dk, rk, h) : h \in 1..(i - 1)}
        free == {j \in DOMAIN rk : dk[i] > 0 /\ rk[j] = dk[i] /\ j \notin taken}
    IN IF free = {} THEN 0 ELSE FirstOf(free)
\* the day lines that find a room line by key, in order
KeyedDays(dk, rk) == SelectSeq([i \in DOMAIN dk |-> i], LAMBDA i : KeyedRoom(dk, rk, i) # 0)

\* C16: pair_day_and_room pairs by key before position: the keyed day lines
\* that have a room line of the same zero-padded key come first, in order,
\* each with the earliest such room line not yet used; the lines
\* 01:月5時限, 02:火3時限 with 02:53-101, 01:53-102 give (月5時限, 53-102),
\* (火3時限, 53-101).
C16_PairsByKey ==
    fn = "pair_day_and_room"
        => /\ LET kd == KeyedDays(fn_case.day_keys, fn_case.room_keys)
              IN /\ Len(fn_out) >= Len(kd)
                 /\ \A n \in DOMAIN kd :
                       fn_out[n] = <<DayLineVals[kd[n]],
                                     RoomLineVals[KeyedRoom(fn_case.day_keys, fn_case.room_keys, kd[n])]>>
           /\ fn_arg = <<<<<<"0", "1", ":", "getsu", "5", "ji", "gen">>, <<"0", "2", ":", "ka", "3", "ji", "gen">>>>, <<<<"0", "2", ":", "5", "3", "-", "1", "0", "1">>, <<"0", "1", ":", "5", "3", "-", "1", "0", "2">>>>>>
                 => fn_out = <<<<<<"getsu", "5", "ji", "gen">>, <<"5", "3", "-", "1", "0", "2">>>>, <<<<"ka", "3", "ji", "gen">>, <<"5", "3", "-", "1", "0", "1">>>>>>
\* day keys written 1:, room keys written 01:, the room lines in another
\* order than the day lines
C16_Witness ==
    /\ fn = "pair_day_and_room"
    /\ fn_case.day_keys = <<1, 2>> /\ fn_case.room_keys = <<2, 3, 1>>
    /\ fn_arg[1][1] = <<"1", ":", " ", "getsu", "5", "ji", "gen">> /\ fn_arg[2][1] = <<"0", "2", ":", "5", "3", "-", "1", "0", "1">>
    /\ fn_out[1] = <<<<"getsu", "5", "ji", "gen">>, <<"5", "3", "-", "1", "0", "3">>>>

FirstAt(s, x) == FirstOf({i \in DOMAIN s : s[i] = x})

\* C17: after the day, parse_day_periods gives for a range a-b the integers
\* from min(a, b) to max(a, b) in ascending order, and for a list of period
\* digits the digits without repeats in the order of their first occurrence;
\* the list returned never holds a repeat; 月5時限 gives (mon, [5]) and
\* Mon.4-5 gives (mon, [4, 5]).
C17_PeriodsOfDay ==
    fn = "parse_day_periods"
        => /\ NoRepeat(fn_out.periods)
           /\ fn_case.kind = "range"
                 => fn_out = [ok |-> TRUE, day |-> fn_case.day,
                              periods |-> [i \in 1..(Max(fn_case.digits[1], fn_case.digits[2])
                                                     - Min(fn_case.digits[1], fn_case.digits[2]) + 1)
                                             |-> Min(fn_case.digits[1], fn_case.digits[2]) + i - 1]]
           /\ fn_case.kind = "list"
                 => /\ fn_out.ok /\ fn_out.day = fn_case.day
                    /\ Range(fn_out.periods) = Range(fn_case.digits)
                    /\ \A i, j \in DOMAIN fn_out.periods :
                          i < j => FirstAt(fn_case.digits, fn_out.periods[i])
                                      < FirstAt(fn_case.digits, fn_out.periods[j])
           /\ fn_arg = <<"getsu", "5", "ji", "gen">> => fn_out = [ok |-> TRUE, day |-> "mon", periods |-> <<5>>]
           /\ fn_arg = <<"M", "o", "n", ".", "4", "-", "5">> => fn_out = [ok |-> TRUE, day |-> "mon", periods |-> <<4, 5>>]
\* a list with a repeat, not in numeric order, was parsed
C17_Witness ==
    /\ fn = "parse_day_periods"
    /\ fn_case.kind = "list" /\ fn_case.digits = <<5, 1, 5>>
    /\ fn_out.periods = <<5, 1>>

ShapeRule(s, p) ==
    IF s = <<"6", "1", "-", "1", "0", "2">> THEN "alias"
    ELSE IF /\ Len(p) = 3 /\ IsDigits(p[1]) /\ IsLetter(p[3])
            /\ Len(p[2]) >= 2 /\ p[2][Len(p[2])] = "F"
            /\ IsDigits(Take(p[2], Len(p[2]) - 1))
         THEN "pc_en"
    ELSE IF Len(p) = 3 /\ IsDigitsAlpha(p[1]) /\ IsNDigits(p[2], 2) /\ IsNDigits(p[3], 2)
         THEN "canonical"
    ELSE IF /\ Len(p) = 2 /\ IsLetter(p[2]) /\ Len(p[1]) >= 3
            /\ Drop(p[1], Len(p[1]) - 2) = <<"P", "C">>
            /\ IsDigits(Take(p[1], Len(p[1]) - 2))
         THEN "canonical"
    ELSE IF /\ Len(p) = 2 /\ IsDigits(p[1]) /\ Len(p[2]) = 3 /\ p[2][1] = "B"
            /\ IsNDigits(Drop(p[2], 1), 2)
         THEN "canonical"
    ELSE IF Len(p) = 3 /\ IsDigitsAlpha(p[1]) /\ IsDigits(p[2]) /\ IsDigits(p[3])
         THEN "three_part"
    ELSE IF /\ Len(p) = 4 /\ IsDigitsAlpha(p[1]) /\ IsNDigits(p[2], 2)
            /\ IsNDigits(p[3], 2) /\ IsDigits(p[4])
         THEN "suffixed"
    ELSE IF /\ Len(p) = 2 /\ IsDigits(p[1])
            /\ \/ IsNDigits(p[2], 3)
               \/ Len(p[2]) = 4 /\ IsNDigits(Take(p[2], 3), 3) /\ IsAsciiAlpha(p[2][4])
         THEN "short3"
    ELSE IF Len(p) = 2 /\ IsDigits(p[1]) /\ (IsNDigits(p[2], 1) \/ IsNDigits(p[2], 2))
         THEN "short"
    ELSE "none"
\* the text the shape rules of norm_room are applied to (lines 54-71)
ShapeText(raw) ==
    Replace(Replace(Replace(Replace(Replace(StripParens(StripKeyPrefix(norm_text(raw))),
        <<"kyou", "shitsu">>, <<>>), <<"shitsu">>, <<>>), <<"RU", "CHOON", "MU">>, <<>>), <<"RU", "-", "MU">>, <<>>), <<" ">>, <<>>)
Unresolved(raw) ==
    \/ Contains(StripParens(StripKeyPrefix(norm_text(raw))), <<"mi", "tei">>)
    \/ Contains(StrUpper(StripParens(StripKeyPrefix(norm_text(raw)))), <<"T", "B", "D">>)
    \/ ShapeText(raw) = <<>>
RoomRule(raw) ==
    IF Unresolved(raw) THEN "none"
    ELSE IF MatchPcJa(StripParens(StripKeyPrefix(norm_text(raw)))) # <<>> THEN "pc_ja"
    ELSE ShapeRule(ShapeText(raw), SplitOn(ShapeText(raw), "-"))

\* C19: norm_room is idempotent on every recognised shape: for a text
\* matched by one of the rules of the cascade, norm_room of what norm_room
\* returned is what norm_room returned.
C19_NormRoomIdempotent ==
    (fn = "norm_room_twice" /\ RoomRule(fn_arg) # "none") => fn_out = fn_case.rest
\* a two-part short code was padded, and norm_room was called on the result
C19_Witness ==
    /\ fn = "norm_room_twice"
    /\ fn_arg = <<"5", "2", "-", "2">> /\ RoomRule(fn_arg) = "short"
    /\ fn_case.rest = <<"5", "2", "-", "0", "2">> /\ fn_out = <<"5", "2", "-", "0", "2">>

\* C20: 63-3F-G gives 63PC-G and 63号館3階末端室Fルーム gives 63PC-F,
\* 53-B04 is returned unchanged, 61-102 gives the alias 61-102B, and the
\* empty string, 未定 and TBD give the empty string.
C20_NormRoomExamples ==
    fn = "norm_room"
        => /\ fn_arg = <<"6", "3", "-", "3", "F", "-", "G">> => fn_out = <<"6", "3", "P", "C", "-", "G">>
           /\ fn_arg = <<"6", "3", "gou", "kan", "3", "kai", "matsu", "tan", "shitsu", "F", "RU", "CHOON", "MU">> => fn_out = <<"6", "3", "P", "C", "-", "F">>
           /\ fn_arg = <<"5", "3", "-", "B", "0", "4">> => fn_out = <<"5", "3", "-", "B", "0", "4">>
           /\ fn_arg = <<"6", "1", "-", "1", "0", "2">> => fn_out = <<"6", "1", "-", "1", "0", "2", "B">>
           /\ fn_arg \in {<<>>, <<"mi", "tei">>, <<"T", "B", "D">>, <<"t", "b", "d">>, <<"kyou", "shitsu", "mi", "tei">>} => fn_out = <<>>
\* the Japanese end-room text was normalised
C20_Witness ==
    /\ fn = "norm_room"
    /\ fn_arg = <<"6", "3", "gou", "kan", "3", "kai", "matsu", "tan", "shitsu", "F", "RU", "CHOON", "MU">> /\ fn_out = <<"6", "3", "P", "C", "-", "F">>

\* C21: parse_day_periods returns None exactly for an item that carries a
\* placeholder token (leading 無, "On demand", "OD"), holds no day token or
\* holds no period digit in 1..7: 無その他 gives None, and an item with a
\* day token followed by a period in 1..7 and no placeholder gives a
\* result for that day.
C21_NoneExactly ==
    fn = "parse_day_periods"
        => /\ fn_case.kind \in {"placeholder", "no_day", "no_digit"} => ~fn_out.ok
           /\ fn_case.kind \in {"range", "list", "plain"}
                 => fn_out.ok /\ fn_out.day = fn_case.day
           /\ fn_arg = <<"mu", "SO", "NO", "TA_">> => fn_out = NoDayPeriods

\* the full-width characters norm_text has a half-width form for
FullWidth == FwDigit \cup FwUpper \cup FwLower \cup DashLike \cup {"FWSP"}

\* C22: norm_text replaces every full-width digit, letter, dash variant and
\* space by its half-width form, so that none of them is left in its result,
\* gives "" for None, and changes nothing when applied to its own result.
C22_NormText ==
    /\ fn = "norm_text"
          => /\ fn_out = fn_case.han
             /\ \A i \in DOMAIN fn_out : fn_out[i] \notin FullWidth
             /\ fn_case.kind = "none" => fn_out = <<>>
    /\ fn = "norm_text_twice" => fn_out = fn_case.han
\* a padded argument with a full-width dash, digit and inner space was
\* normalised twice
C22_Witness ==
    /\ fn = "norm_text_twice"
    /\ fn_arg = <<"FWSP", " ", "FW5", "FWSP", "CHOON", "FWSP", " ">>
    /\ fn_out = <<"5", " ", "-">>
\* None was normalised
C22_WitnessNone == fn = "norm_text" /\ fn_case.kind = "none" /\ fn_out = <<>>

\* s is the beginning of t
IsPrefixOf(s, t) == Len(s) <= Len(t) /\ \A i \in DOMAIN s : t[i] = s[i]
\* the row put_cell addresses: the first one whose period is the argument
TargetRow(df, call) ==
    CHOOSE i \in DOMAIN df[PeriodCol] :
        /\ IntOf(df[PeriodCol][i]) = call[1]
        /\ \A j \in 1..(i - 1) : IntOf(df[PeriodCol][j]) # call[1]
\* everything but the cell addressed is as it was before the last call: the
\* columns, the rows, the period column and every other cell
FrameKept ==
    /\ DOMAIN cell_df = DOMAIN cell_prev
    /\ cell_df[PeriodCol] = cell_prev[PeriodCol]
    /\ \A c \in DOMAIN cell_df : DOMAIN cell_df[c] = DOMAIN cell_prev[c]
    /\ \A c \in DOMAIN cell_df : \A i \in DOMAIN cell_df[c] :
          cell_df[c][i] # cell_prev[c][i]
              => /\ CallInTable(LastCall, cell_prev)
                 /\ c = LastCall[2]
                 /\ i = TargetRow(cell_prev, LastCall)

\* C23 as stated: a put_cell call changes at most the cell addressed, and
\* what that cell held is the beginning of what it holds afterwards.
C23_FrameAsStated ==
    cell_call # <<>>
        => /\ FrameKept
           /\ \A c \in DOMAIN cell_df : \A i \in DOMAIN cell_df[c] :
                 IsPrefixOf(cell_prev[c][i], cell_df[c][i])

\* C23: a put_cell call changes at most the cell at the first row whose
\* period is the argument and the column named by the room; where that cell
\* changes, what it held, without its surrounding white space, is the
\* beginning of what it holds afterwards, and its entries stay its first
\* entries; the columns, the rows, the period column and every other cell
\* are unchanged.
C23_Frame ==
    cell_call # <<>>
        => /\ FrameKept
           /\ \A c \in DOMAIN cell_df : \A i \in DOMAIN cell_df[c] :
                 /\ \/ cell_df[c][i] = cell_prev[c][i]
                    \/ IsPrefixOf(Strip(cell_prev[c][i]), cell_df[c][i])
                 /\ IsPrefixOf(CellEntries(cell_prev[c][i]), CellEntries(cell_df[c][i]))
\* a call has appended to a cell that held an entry between spaces
C23_Witness ==
    /\ cell_call # <<>>
    /\ CallInTable(LastCall, cell_prev)
    /\ CellAt(cell_prev, LastCall) = <<" ", "A", "1", ":", "I", "n", "t", "r", "o", " ">>
    /\ CellAt(cell_df, LastCall) = <<"A", "1", ":", "I", "n", "t", "r", "o", ";">> \o LastCall[3]

\* the strategies tried so far in a call are in the order 1, 2, 3, each at
\* most once, and each was available on the page
TriedInOrder ==
    /\ \A i \in DOMAIN tried : tried[i] \in 1..3
    /\ \A i, j \in DOMAIN tried : i < j => tried[i] < tried[j]
    /\ 1 \in Range(tried) => site.fn
    /\ 2 \in Range(tried) => site.form
    /\ 3 \in Range(tried) => site.link
\* one step of a call: a strategy is begun only after every earlier one was
\* unavailable or its wait ended with the indicator text equal to before,
\* and the step that returns True begins nothing
OrderedStep ==
    /\ (pc' = "wait1" /\ pc # "wait1") => pc = "go" /\ tried' = <<1>>
    /\ (pc' = "s2" /\ pc # "s2")
          => \/ pc = "go" /\ ~site.fn /\ tried' = <<>>
             \/ pc = "wait1" /\ ~TextDiffers /\ tried' = tried
    /\ (pc' = "wait2" /\ pc # "wait2") => pc = "s2" /\ tried' = Append(tried, 2)
    /\ (pc' = "s3" /\ pc # "s3")
          => \/ pc = "s2" /\ ~site.form /\ tried' = tried
             \/ pc = "wait2" /\ ~TextDiffers /\ tried' = tried
    /\ (pc' = "wait3" /\ pc # "wait3") => pc = "s3" /\ tried' = Append(tried, 3)
    /\ (pc \in NavPcs /\ ret' = "true" /\ advances' = advances + 1)
          => /\ tried' = tried /\ pc' = "harvest"
             /\ why' = "strategy1" => tried = <<1>>
             /\ why' = "strategy2" => tried[Len(tried)] = 2
             /\ why' \in {"strategy3", "recheck"} => tried[Len(tried)] = 3

\* C24: within one go_to_next_page call the strategies are attempted in the
\* order (1) call the pagination function, (2) submit the form, (3) click
\* the pager link; a strategy is attempted only if each earlier one was
\* unavailable or its wait saw no change of the indicator, and after a
\* strategy has succeeded none is attempted.
C24_StrategyOrder == []TriedInOrder /\ [][OrderedStep]_vars
\* without the pagination function, the form was submitted in vain and the
\* click on the pager link then advanced the page
C24_Witness ==
    /\ ~site.fn /\ tried = <<2, 3>>
    /\ ret = "true" /\ why = "strategy3" /\ pc = "harvest"
    /\ shown = shown_at_call + 1

\* the site serves every page it is asked for, writes the indicator as the
\* program expects and ignores a request past the last page
ServesEveryPage ==
    /\ site.reach = NPages(site)
    /\ site.fmt = "plain"
    /\ site.beyond = "stay"
\* the pages harvested are 1, 2, 3, ... and the counter is the number of the
\* page under harvest
InPageOrder ==
    /\ \A i \in DOMAIN harvested : harvested[i] = i
    /\ Len(harvested) = page_no

\* C25: on a site that serves every page, a go_to_next_page call made on
\* page k never moves the display past page k+1, whatever strategies it
\* tries and whenever their navigations arrive; the pages harvested are
\* 1, 2, 3, ... without a gap and the page counter is the number of the page
\* harvested.
C25_NeverPastNextPage ==
    ServesEveryPage
        => /\ pc \in NavPcs => shown <= shown_at_call + 1 /\ pending <= shown_at_call + 1
           /\ InPageOrder

\* the lines of a cell that are not blank, by index, in order
Present(keys) == SelectSeq([i \in DOMAIN keys |-> i], LAMBDA i : keys[i] # -1)
\* the day lines left after key matching, and the room lines left
RestDays(dk, rk) ==
    SelectSeq(Present(dk), LAMBDA i : KeyedRoom(dk, rk, i) = 0)
RestRooms(dk, rk) ==
    SelectSeq(Present(rk), LAMBDA j : \A i \in DOMAIN dk : KeyedRoom(dk, rk, i) # j)

\* C26: after the pairs matched by key, pair_day_and_room pairs the day
\* lines left (without a key, or with a key no unused room line carries)
\* with the room lines left, the i-th with the i-th, up to the shorter of the
\* two; the lines left over on the longer side are in no pair.
C26_RestByPosition ==
    fn = "pair_day_and_room"
        => LET nk == Len(KeyedDays(fn_case.day_keys, fn_case.room_keys))
               rd == RestDays(fn_case.day_keys, fn_case.room_keys)
               rr == RestRooms(fn_case.day_keys, fn_case.room_keys)
           IN /\ Len(fn_out) = nk + Min(Len(rd), Len(rr))
              /\ \A n \in 1..Min(Len(rd), Len(rr)) :
                    fn_out[nk + n] = <<DayLineVals[rd[n]], RoomLineVals[rr[n]]>>
\* 月5時限 without a key and 02:火3時限 whose key no room line carries were
\* paired in order with the two room lines the key match left; the third
\* room line is in no pair
C26_Witness ==
    /\ fn = "pair_day_and_room"
    /\ fn_case.day_keys = <<0, 2>> /\ fn_case.room_keys = <<1, 0, 0>>
    /\ fn_out = <<<<DayLineVals[1], RoomLineVals[1]>>, <<DayLineVals[2], RoomLineVals[2]>>>>

\* C27: pair_day_and_room uses every day line and every room line in at most
\* one pair and returns as many pairs as the fewer of the non-blank day
\* lines and the non-blank room lines.
C27_EachLineOnce ==
    fn = "pair_day_and_room"
        => /\ Len(fn_out) = Min(Len(Present(fn_case.day_keys)), Len(Present(fn_case.room_keys)))
           /\ NoRepeat([n \in DOMAIN fn_out |-> fn_out[n][1]])
           /\ NoRepeat([n \in DOMAIN fn_out |-> fn_out[n][2]])
           /\ \A n \in DOMAIN fn_out :
                 /\ \E i \in Range(Present(fn_case.day_keys)) : fn_out[n][1] = DayLineVals[i]
                 /\ \E j \in Range(Present(fn_case.room_keys)) : fn_out[n][2] = RoomLineVals[j]
\* a keyed and an unkeyed day line met three room lines, one of them
\* blank: two pairs
C27_Witness ==
    /\ fn = "pair_day_and_room"
    /\ fn_case.day_keys = <<1, 0>> /\ fn_case.room_keys = <<1, -1, 1>>
    /\ fn_out = <<<<DayLineVals[1], RoomLineVals[1]>>, <<DayLineVals[2], RoomLineVals[3]>>>>

\* the fields of a row of n cells read through the column indexes e
FieldsAt(e) ==
    [code |-> DataCell(e.code)[1], name |-> DataCell(e.name)[1], term |-> DataCell(e.term)[1],
     day |-> DataCell(e.day), room |-> DataCell(e.room)]
LargestIdx(e) == Max(Max(Max(e.code, e.name), Max(e.term, e.day)), e.room)

\* C28: each of code, name, term, day/period and room is read from the
\* column of the first header cell that matches one of the field's
\* patterns, and from the legacy column (1, 2, 5, 6, 7) when no header cell
\* matches; a row with fewer cells than the largest column index used plus
\* one is skipped.
C28_ColumnsFromHeader ==
    fn = "read_row"
        => /\ fn_out.idx = fn_case.expect
           /\ fn_out.skipped <=> fn_case.cells < LargestIdx(fn_case.expect) + 1
           /\ ~fn_out.skipped => fn_out.fields = FieldsAt(fn_case.expect)

\* C29: whatever the header row, the five column indexes used for code,
\* name, term, day/period and room are pairwise distinct.
C29_ColumnsDistinct ==
    fn = "read_row"
        => Cardinality({fn_out.idx[f] : f \in DOMAIN fn_out.idx}) = 5

\* the three-digit short forms among the room codes tried: a building made
\* of digits, "-", three digits and at most one letter (61-102 is renamed
\* by the alias table before any form is looked at)
IsShort3Case ==
    /\ fn_case.kind = "code"
    /\ fn_case.building \in {<<"5", "2">>, <<"5", "3">>, <<"6", "1">>, <<"6", "3">>, <<"FW5", "FW3">>}
    /\ fn_case.rest \in {<<"2", "0", "1">>, <<"1", "0", "1">>, <<"1", "0", "2">>,
                         <<"1", "0", "4", "a">>, <<"2", "0", "1", "A">>}
    /\ fn_arg # <<"6", "1", "-", "1", "0", "2">>
\* the building in half-width digits
HalfBuilding(b) == IF b = <<"FW5", "FW3">> THEN <<"5", "3">> ELSE b

\* C30: for a three-digit short form "<building>-<3 digits>[letter]"
\* norm_room returns, for building 63, the long form with the first digit
\* as the zero-padded floor and the other two as the room (63-201 gives
\* 63-02-01), and for every other building "<building>-<3 digits>" without
\* the letter.
C30_ThreeDigitShortForm ==
    (fn = "norm_room" /\ IsShort3Case)
        => IF fn_case.building = <<"6", "3">>
           THEN fn_out = <<"6", "3", "-", "0", fn_case.rest[1], "-", fn_case.rest[2], fn_case.rest[3]>>
           ELSE fn_out = HalfBuilding(fn_case.building) \o <<"-">> \o Take(fn_case.rest, 3)

\* how many course values a cell holds: each value is "<code>:<name>", and no
\* code or name of the result lists or of the CSV files holds a ":"
RECURSIVE Colons(_)
Colons(s) == IF s = <<>> THEN 0
             ELSE (IF Head(s) = ":" THEN 1 ELSE 0) + Colons(Tail(s))
\* the values held by the cells of one column, of one table, of one week
RECURSIVE ColumnValues(_, _)
ColumnValues(col, i) ==
    IF i > Len(col) THEN 0 ELSE Colons(col[i]) + ColumnValues(col, i + 1)
RECURSIVE TableValues(_, _)
TableValues(df, rooms) ==
    IF rooms = {} THEN 0
    ELSE LET r == CHOOSE x \in rooms : TRUE
         IN ColumnValues(df[r], 1) + TableValues(df, rooms \ {r})
RECURSIVE WeekValues(_, _)
WeekValues(week, i) ==
    IF i > Len(DAYS) THEN 0
    ELSE TableValues(week[DAYS[i]], TableRooms) + WeekValues(week, i + 1)
ValuesIn(week) == WeekValues(week, 1)
\* the tables this harvest started from
TablesAtStart ==
    IF run = 1 THEN [fall |-> PreTables(pre).fall, winter |-> PreTables(pre).winter]
    ELSE [fall |-> after_first.fall, winter |-> after_first.winter]
\* the put_cell calls of this harvest that changed a cell: each of them puts
\* one more value into one cell, the others leave the tables as they are
ChangedFills ==
    (ValuesIn(fall_tables) - ValuesIn(TablesAtStart.fall))
        + (ValuesIn(winter_tables) - ValuesIn(TablesAtStart.winter))

\* C31: the filled count of harvest_result_pages, which the run summary
\* prints, is the number of put_cell calls of the run that changed a cell of
\* a table; calls dropped for an unknown period or column and calls whose
\* value the cell already lists are not counted.
C31_FilledCountsChanges == filled = ChangedFills

====
